---- MODULE Spec2Model ----
(***************************************************************************)
(* FigGit: the commit path of the plugin.                                  *)
(*                                                                         *)
(* The model covers the COMMIT_REQUEST handlers of the plugin (the         *)
(* multi-document handleCommitRequest and the single-document handler of   *)
(* src/plugin.ts), the settings and token messages that share the          *)
(* persisted state with them, and the GitHub client: ghFetch with its      *)
(* transport retry, ensureBranch, getExistingFile and upsertFile with its  *)
(* single conflict retry.  GitHub is the environment: every response is    *)
(* chosen from a small set of statuses and file copies.                    *)
(***************************************************************************)
EXTENDS Integers, Sequences, FiniteSets, TLC

\* ------------------------------------------------------------------------
\* Bounds and value sets
\* ------------------------------------------------------------------------

\* COMMIT_REQUEST messages handled in one run of the plugin.
MaxRequests == 2

\* Settings and token messages handled in one run of the plugin.
MaxMessages == 1

\* Repository-relative paths of exported documents, in ascending order.
AllPaths == <<"a.json", "b.json">>
Paths == {AllPaths[i] : i \in 1..Len(AllPaths)}

\* Content hashes (hex digests in the program); NoHash is undefined / "".
NoHash == ""
Hashes == {"h1", "h2"}

\* Git blob SHAs of remote files, commit SHAs of refs, html_url values.
NoSha == "undefined"
Shas == {"s1", "s2"}
CommitShas == {"c1", "c2"}
NoUrl == "undefined"

\* html_url of the file at a path of the target branch.
htmlUrl(path) == "blob/" \o path

\* Where a JSON document carries its content hash:
\*   "ext"  $extensions."com.figma".contentHash   (DTCG builder)
\*   "top"  contentHash at the root               (native builder)
\*   "meta" meta.contentHash                      (buildVariablesJson)
\*   "raw"  no hash at all (not JSON, or JSON without a hash)
Contents ==
  {[layout |-> l, hash |-> h] : l \in {"ext", "top", "meta"}, h \in Hashes}
    \cup {[layout |-> "raw", hash |-> NoHash]}

\* The file contents the remote branch may hold.
RemoteContents == {c \in Contents : c.layout # "top"}

\* null, as a GitHubFile.
NoFile == [sha |-> NoSha, content |-> [layout |-> "raw", hash |-> NoHash], html_url |-> NoUrl]

\* GitHubFile: what the contents API returns for the file at a path.
GitHubFiles(path) ==
  {[sha |-> s, content |-> c, html_url |-> htmlUrl(path)] : s \in Shas, c \in RemoteContents}

\* The answers of the contents API to a read of the file at a path.
ContentsAnswers(path) ==
  {[status |-> st, file |-> NoFile] : st \in {404, 500}}
    \cup {[status |-> 200, file |-> g] : g \in GitHubFiles(path)}

\* ------------------------------------------------------------------------
\* Documents and bundles
\* ------------------------------------------------------------------------

\* root.$extensions['com.figma'].contentHash = contentHash
dtcgData(hash) == [layout |-> "ext", hash |-> hash]

\* document.contentHash = await sha256(hashInput)
nativeData(hash) == [layout |-> "top", hash |-> hash]

\* root.meta.contentHash = await sha256(json)
legacyData(hash) == [layout |-> "meta", hash |-> hash]

\* normalizeFolder + join; the model keeps folder = "".
buildRepoPath(folder, filename) ==
  IF folder = "" THEN filename ELSE folder \o "/" \o filename

RECURSIVE sortedPairs(_, _)
\* The {path, hash} pairs of docs, by ascending path, rendered as text.
sortedPairs(docs, i) ==
  IF i > Len(AllPaths) THEN ""
  ELSE LET here == {k \in 1..Len(docs) : docs[k].relativePath = AllPaths[i]}
       IN (IF here = {} THEN ""
           ELSE LET k == CHOOSE k \in here : TRUE
                IN docs[k].relativePath \o ":" \o docs[k].contentHash \o ";")
          \o sortedPairs(docs, i + 1)

\* summaryHash = sha256(stableStringify(pairs sorted by path))
summaryHash(docs) == "sha(" \o sortedPairs(docs, 1) \o ")"

\* buildDtcgBundle: one document at the configured path (the model keeps
\* folder "" and filename AllPaths[1]); summary hash = document hash.
DtcgBundles ==
  {[documents |-> <<[relativePath |-> buildRepoPath("", AllPaths[1]), contentHash |-> h,
                     data |-> dtcgData(h)]>>,
    summary |-> [contentHash |-> h]] : h \in Hashes}

\* Sequences of native documents with pairwise distinct relativePath.
NativeDocLists ==
  UNION {{docs \in [1..n -> [relativePath : Paths, contentHash : Hashes, data : Contents]] :
            /\ \A i \in 1..n : docs[i].data = nativeData(docs[i].contentHash)
            /\ \A i, j \in 1..n : i # j => docs[i].relativePath # docs[j].relativePath}
         : n \in 0..Len(AllPaths)}

\* buildFigmaNativeExport: documents plus the summary hash over them.
NativeBundles ==
  {[documents |-> docs, summary |-> [contentHash |-> summaryHash(docs)]] :
     docs \in NativeDocLists}

Bundles == DtcgBundles \cup NativeBundles

\* ------------------------------------------------------------------------
\* Persisted settings
\* ------------------------------------------------------------------------

Owners == {"", "acme"}
NoHashes == [p \in Paths |-> NoHash]

\* defaultSettings(): nothing configured, no stored hashes.
defaultSettings ==
  [owner |-> "", folder |-> "", filename |-> AllPaths[1],
   lastHashes |-> NoHashes, lastHash |-> NoHash]

\* validateGitHubOwner: the owner is required (the other fields of the model
\* always hold valid values).
validateAllSettings(s) == s.owner # ""

\* Object.keys(map).length
keysOf(map) == {p \in Paths : map[p] # NoHash}

\* getLastHashMap: the stored map, or the legacy single hash under the
\* configured path when the map is empty.
getLastHashMap(s) ==
  IF keysOf(s.lastHashes) = {} /\ s.lastHash # NoHash
    /\ buildRepoPath(s.folder, s.filename) \in Paths
  THEN [p \in Paths |-> IF p = buildRepoPath(s.folder, s.filename)
                        THEN s.lastHash ELSE NoHash]
  ELSE s.lastHashes

\* ------------------------------------------------------------------------
\* Retry with backoff and ghFetch
\* ------------------------------------------------------------------------

\* String.prototype.includes
Contains(s, kw) ==
  \E i \in 1..(Len(s) - Len(kw) + 1) : SubSeq(s, i, i + Len(kw) - 1) = kw

\* ghFetch passes maxAttempts: 3 to withRetry.
maxAttempts == 3

\* What one call of fetch() does: it resolves with a response, or it rejects
\* with an error carrying one of these (lower-cased) messages.
Resolve == "resolve"
FetchErrors == {"failed to fetch", "host not found"}
FetchOutcomes == {Resolve} \cup FetchErrors

\* defaultShouldRetry: substring checks on the lower-cased message, in order.
defaultShouldRetry(errorMsg) ==
  IF \/ Contains(errorMsg, "network") \/ Contains(errorMsg, "fetch")
     \/ Contains(errorMsg, "timeout") \/ Contains(errorMsg, "econnrefused")
  THEN TRUE
  ELSE IF \/ Contains(errorMsg, "50") \/ Contains(errorMsg, "429")
          \/ Contains(errorMsg, "rate limit")
  THEN TRUE
  ELSE IF Contains(errorMsg, "409") \/ Contains(errorMsg, "conflict")
  THEN TRUE
  ELSE IF \/ Contains(errorMsg, "401") \/ Contains(errorMsg, "403")
          \/ Contains(errorMsg, "404") \/ Contains(errorMsg, "422")
          \/ Contains(errorMsg, "unauthorized") \/ Contains(errorMsg, "forbidden")
          \/ Contains(errorMsg, "not found")
  THEN FALSE
  ELSE TRUE

\* options.shouldRetry as ghFetch leaves it: defaultShouldRetry, tabulated
\* over the errors fetch() can reject with.
shouldRetryTable == [e \in FetchErrors |-> defaultShouldRetry(e)]

RECURSIVE withRetry(_, _, _)
\* withRetry from attempt number `attempt` on; outs[k] is what the k-th call
\* of fn does.  Yields whether it threw, the error, and the calls of fn made.
withRetry(outs, shouldRetry, attempt) ==
  IF outs[attempt] = Resolve
  THEN [threw |-> FALSE, error |-> "", calls |-> attempt]
  ELSE IF attempt >= maxAttempts
  THEN [threw |-> TRUE, error |-> outs[attempt], calls |-> attempt]
  ELSE IF ~shouldRetry[outs[attempt]]
  THEN [threw |-> TRUE, error |-> outs[attempt], calls |-> attempt]
  ELSE withRetry(outs, shouldRetry, attempt + 1)

\* ghFetch: fetch(url, init) under withRetry with the default predicate.
ghFetch(outs) == withRetry(outs, shouldRetryTable, 1)

\* The ways three consecutive calls of fetch() can go.
FetchRuns == [1..maxAttempts -> FetchOutcomes]

\* Every way a ghFetch call can end for its caller: with a response, or with
\* the error withRetry rethrows, after so many calls of fetch().
ghFetchResults ==
  {[threw |-> ghFetch(outs).threw, error |-> ghFetch(outs).error,
    calls |-> ghFetch(outs).calls] : outs \in FetchRuns}

\* Response.ok
IsOk(status) == status >= 200 /\ status <= 299

\* ------------------------------------------------------------------------
\* State
\* ------------------------------------------------------------------------

VARIABLES
  stored,        \* figma.root plugin data under SETTINGS_KEY (PersistedSettings)
  token,         \* figma.clientStorage 'github_pat' ("" when absent)
  uiSettings,    \* the UI's copy of the settings (last SETTINGS_RESPONSE / edit)
  pc,            \* where the commit in flight is suspended
  caller,        \* who runs the GitHub client: a handler, or upsertFile itself
  msg,           \* the COMMIT_REQUEST message being handled
  settings,      \* the handler's local `settings`
  files,         \* the files handed to commitFiles / upsertFile
  fileIdx,       \* the file upsertFile is working on
  results,       \* UpsertResult of the files done so far
  existing,      \* upsertFile's `existing`: its sha, NoSha for null
  prevExisting,  \* attemptWrite's `prevExisting`: its sha, NoSha for null
  attempt,       \* attemptWrite's `attempt`
  baseSha,       \* ensureBranch's `sha`
  log,           \* requests of the current upsertFile call, with their answers
  network,       \* a ghFetch call was made for the current COMMIT_REQUEST
  result,        \* COMMIT_RESULT messages posted for the current request
  before,        \* `stored` and `messages` when the current request arrived
  prev,          \* the request before the current one, if it ended in a commit
                 \* and no settings or token message was handled since it came
  interfered,    \* a SAVE_SETTINGS was handled while the request was in flight
  inProgress,    \* the UI's commitState.inProgress
  requests,      \* COMMIT_REQUEST messages handled so far
  messages,      \* settings and token messages handled so far
  sent,          \* what the last step posted to the UI besides COMMIT_RESULT
  retry,         \* a withRetry call followed step by step: its locals and what
                 \* it called with which arguments
  build,         \* an export build followed step by step: its inputs, its
                 \* locals, the fetch-by-id calls it made and how it ended
  util           \* a call of stableStringify: its argument and its result

vars ==
  <<stored, token, uiSettings, pc, caller, msg, settings, files, fileIdx, results,
    existing, prevExisting, attempt, baseSha, log, network, result, before, prev,
    interfered, inProgress, requests, messages, sent, retry, build, util>>

NoBundle == [documents |-> <<>>, summary |-> [contentHash |-> NoHash]]
NoData == [meta |-> [contentHash |-> NoHash]]
NoMsg == [exportBundle |-> NoBundle, exportData |-> NoData, dryRun |-> FALSE]
NoBefore == [stored |-> defaultSettings, messages |-> 0]
NoPrev == [msg |-> NoMsg, updated |-> FALSE]

\* No export build is being followed.
NoBuild ==
  [pc |-> "off", builder |-> "", exportType |-> "", allVars |-> <<>>, exportedAt |-> "",
   variablePathMap |-> <<>>, remoteVariableNames |-> <<>>, remoteVariableIds |-> <<>>,
   getVariableByIdAsync |-> <<>>,
   documents |-> <<>>, error |-> "", collections |-> <<>>, cause |-> "",
   summary |-> [documentsCount |-> 0, contentHash |-> ""]]

\* The position of the character c in s, 0 when it is not there.
indexOf(s, c) ==
  LET at == {i \in 1..Len(s) : SubSeq(s, i, i) = c}
  IN IF at = {} THEN 0 ELSE CHOOSE i \in at : \A j \in at : i <= j

\* a comes before b when strings are compared character by character, the
\* characters being ranked by their place in `order`.
stringBefore(a, b, order) ==
  \E i \in 1..((IF Len(a) < Len(b) THEN Len(a) ELSE Len(b)) + 1) :
    /\ SubSeq(a, 1, i - 1) = SubSeq(b, 1, i - 1)
    /\ \/ i > Len(a) /\ i <= Len(b)
       \/ /\ i <= Len(a) /\ i <= Len(b)
          /\ indexOf(order, SubSeq(a, i, i)) < indexOf(order, SubSeq(b, i, i))

\* A value tree: a primitive with its JSON text, an array of values, or a
\* plain object, whose entries are held in the order in which the keys were
\* inserted.
primitive(text) == [kind |-> "primitive", text |-> text, items |-> <<>>]
array(values) ==
  [kind |-> "array", text |-> "",
   items |-> [i \in 1..Len(values) |-> [key |-> "", value |-> values[i]]]]
object(entries) == [kind |-> "object", text |-> "", items |-> entries]

\* The characters of the keys in the order of their UTF-16 code units.
CodeUnitOrder == "ABab"

\* Mutation of sortKeys: the entries stay in insertion order.
sortKeys_unsorted(entries) == entries

\* Object.keys(val).sort(): the entries by ascending key.
sortKeys(entries) ==
  LET F[i \in 0..Len(entries)] ==
        IF i = 0 THEN <<>>
        ELSE LET k == Cardinality({j \in 1..Len(F[i - 1]) :
                                     stringBefore(F[i - 1][j].key, entries[i].key,
                                                  CodeUnitOrder)})
             IN SubSeq(F[i - 1], 1, k) \o <<entries[i]>>
                  \o SubSeq(F[i - 1], k + 1, Len(F[i - 1]))
  IN F[Len(entries)]

RECURSIVE sortValue(_)
\* sortValue: an array mapped in its order, a plain object rebuilt with its
\* keys sorted, a primitive as it is.
sortValue(val) ==
  CASE val.kind = "array" ->
         [val EXCEPT !.items = [i \in 1..Len(val.items) |->
                                 [key |-> "", value |-> sortValue(val.items[i].value)]]]
    [] val.kind = "object" ->
         LET sorted == sortKeys(val.items)
         IN [val EXCEPT !.items = [i \in 1..Len(sorted) |->
                                    [key |-> sorted[i].key,
                                     value |-> sortValue(sorted[i].value)]]]
    [] OTHER -> val

RECURSIVE JSONstringify(_, _, _)
\* JSON.stringify(val, null, space), at the indentation `indent`: the members
\* of an object in the order of its keys, the elements of an array in theirs.
JSONstringify(val, space, indent) ==
  LET inner == indent \o space
      member(i) ==
        inner \o (IF val.kind = "object" THEN "\"" \o val.items[i].key \o "\": " ELSE "")
              \o JSONstringify(val.items[i].value, space, inner)
      F[i \in 0..Len(val.items)] ==
        IF i = 0 THEN ""
        ELSE F[i - 1] \o (IF i > 1 THEN ",\n" ELSE "") \o member(i)
  IN CASE val.kind = "primitive" -> val.text
       [] val.items = <<>> -> IF val.kind = "array" THEN "[]" ELSE "{}"
       [] val.kind = "array" -> "[\n" \o F[Len(val.items)] \o "\n" \o indent \o "]"
       [] OTHER -> "{\n" \o F[Len(val.items)] \o "\n" \o indent \o "}"

\* stableStringify(obj, space = 2)
stableStringify(obj) == JSONstringify(sortValue(obj), "  ", "")

\* No call of stableStringify is being followed.
NoUtil == [pc |-> "off", obj |-> primitive("null"), result |-> ""]

\* options of withRetry, with the defaults of its destructuring
defaultRetryOptions ==
  [maxAttempts |-> 3, initialDelay |-> 1000, maxDelay |-> 10000, backoffMultiplier |-> 2,
   shouldRetry |-> "default", onRetry |-> FALSE]

\* No withRetry call is being followed.
NoRetry ==
  [pc |-> "off", options |-> defaultRetryOptions, attempt |-> 0, currentDelay |-> 0,
   lastError |-> "", fn |-> <<>>, shouldRetry |-> <<>>, onRetry |-> <<>>, delay |-> <<>>,
   value |-> "", error |-> ""]

\* formatGitHubError (handleCommitRequest)
formatGitHubError(message) ==
  IF Contains(message, "401") THEN "Unauthorized (check token)"
  ELSE IF Contains(message, "403") THEN "Forbidden (check permissions)"
  ELSE IF Contains(message, "404") THEN "Not found (check repository)"
  ELSE IF Contains(message, "409") THEN "Conflict (branch updated)"
  ELSE IF Contains(message, "422") THEN "Validation failed (check branch/path)"
  ELSE message

\* The catch clause of the COMMIT_REQUEST handler of src/plugin.ts.
legacyErrorText(message) ==
  IF Contains(message, "401") THEN "Unauthorized (check token)"
  ELSE IF Contains(message, "403") THEN "Forbidden (check permissions)"
  ELSE IF Contains(message, "404") THEN "Not found (check repository)"
  ELSE IF Contains(message, "422") THEN "Validation failed (check branch/file path)"
  ELSE message

CommitOk(skipped, url) ==
  [type |-> "COMMIT_RESULT", ok |-> TRUE, skipped |-> skipped, url |-> url, error |-> ""]
CommitFailed(error) ==
  [type |-> "COMMIT_RESULT", ok |-> FALSE, skipped |-> FALSE, url |-> NoUrl, error |-> error]

\* The value of `sent` in runs that do not watch the messages to the UI.
Unwatched == <<[type |-> "unwatched"]>>

\* figma.ui.postMessage, for the messages `ms` of one step.
postMessage(ms) == sent' = IF sent = Unwatched THEN sent ELSE ms

\* ------------------------------------------------------------------------
\* How a step of the GitHub client ends
\* ------------------------------------------------------------------------

\* The call failed transiently: fetch() rejected (status 0), or the answer has
\* status 5xx or 429.
transientFailure(status) == status = 0 \/ status >= 500 \/ status = 429

\* The ways a ghFetch call can end, as far as the observer of the plugin can
\* tell them apart: the calls of fetch() are counted under upsertFile alone.
ghFetchObserved ==
  IF caller = "upsertFile" THEN ghFetchResults
  ELSE {[f EXCEPT !.calls = 0] : f \in ghFetchResults}

\* One ghFetch call: the request with the sha it carries, the status of its
\* answer (0: ghFetch threw), the file or ref object in the answer and the
\* number of fetch() calls ghFetch made for it, kept for the calls that failed
\* transiently.  The
\* requests are logged when upsertFile is observed on its own; under a
\* handler only their occurrence is recorded.
Net(prior, op, sha, status, got, calls) ==
  /\ log' = IF caller = "upsertFile"
            THEN Append(prior, [op |-> op, sha |-> sha, status |-> status, got |-> got,
                                calls |-> IF transientFailure(status) THEN calls ELSE 0])
            ELSE log
  /\ network' = TRUE

\* upsertFile stays suspended, now at `next`.
Goto(next, ex, prevEx, att, bs) ==
  /\ pc' = next
  /\ existing' = ex
  /\ prevExisting' = prevEx
  /\ attempt' = att
  /\ baseSha' = bs
  /\ UNCHANGED <<stored, uiSettings, result, fileIdx, results>>

\* commitFiles' answer over the per-file answers: skipped when every file
\* was skipped, with the URL of the last file.
commitFilesResult(rs) ==
  [skipped |-> \A i \in 1..Len(rs) : rs[i].skipped, url |-> rs[Len(rs)].url]

\* Mutation of nextHashes: the documents' hashes are not recorded.
nextHashes_unrecorded(storedHashes, documents) == storedHashes

\* nextHashes: the stored hashes overwritten with the hash of every document.
nextHashes(storedHashes, documents) ==
  [p \in Paths |->
     IF \E i \in 1..Len(documents) : documents[i].relativePath = p
     THEN documents[CHOOSE i \in 1..Len(documents) : documents[i].relativePath = p].contentHash
     ELSE storedHashes[p]]

\* Mutation of handleCommitRequest_saved: the new map holds the committed
\* files only.
handleCommitRequest_saved_filesOnly(res) ==
  [settings EXCEPT
     !.lastHashes = [p \in Paths |->
                       IF \E i \in 1..Len(files) : files[i].path = p
                       THEN files[CHOOSE i \in 1..Len(files) : files[i].path = p].contentHash
                       ELSE NoHash],
     !.lastHash = msg.exportBundle.summary.contentHash]

\* handleCommitRequest after commitFiles has returned `res`.
handleCommitRequest_saved(res) ==
  [settings EXCEPT
     !.lastHashes = nextHashes(getLastHashMap(settings), msg.exportBundle.documents),
     !.lastHash = msg.exportBundle.summary.contentHash]

\* The COMMIT_REQUEST handler of src/plugin.ts after upsertFile has returned.
legacy_saved(res) ==
  IF ~res.skipped /\ msg.exportData.meta.contentHash # NoHash
  THEN [settings EXCEPT !.lastHash = msg.exportData.meta.contentHash]
  ELSE stored

\* upsertFile returns `res`: commitFiles goes on with the next file, or the
\* caller runs to its end.
Return(res) ==
  /\ results' = Append(results, res)
  /\ existing' = NoSha
  /\ prevExisting' = NoSha
  /\ attempt' = 0
  /\ baseSha' = NoSha
  /\ UNCHANGED uiSettings
  /\ IF caller = "handleCommitRequest" /\ fileIdx < Len(files)
     THEN /\ fileIdx' = fileIdx + 1
          /\ pc' = "ref"
          /\ UNCHANGED <<stored, result>>
     ELSE /\ UNCHANGED fileIdx
          /\ CASE caller = "handleCommitRequest" ->
                    LET r == commitFilesResult(Append(results, res)) IN
                    /\ stored' = handleCommitRequest_saved(r)
                    /\ result' = Append(result, CommitOk(r.skipped, r.url))
                    /\ pc' = "posted"
               [] caller = "onmessage" ->
                    /\ stored' = legacy_saved(res)
                    /\ result' = Append(result, CommitOk(res.skipped, res.url))
                    /\ pc' = "posted"
               [] OTHER ->
                    /\ pc' = "returned"
                    /\ UNCHANGED <<stored, result>>

\* Mutation of Throw: the catch clause records the bundle's summary hash.
Throw_persisting(message) ==
  /\ existing' = NoSha
  /\ prevExisting' = NoSha
  /\ attempt' = 0
  /\ baseSha' = NoSha
  /\ stored' = [stored EXCEPT !.lastHash = msg.exportBundle.summary.contentHash]
  /\ UNCHANGED <<uiSettings, fileIdx, results>>
  /\ IF caller = "upsertFile"
     THEN pc' = "threw" /\ UNCHANGED result
     ELSE /\ result' = Append(result, CommitFailed(message))
          /\ pc' = "posted"

\* Mutation of Throw: the handler has no catch clause, nothing is posted.
Throw_unanswered(message) ==
  /\ existing' = NoSha
  /\ prevExisting' = NoSha
  /\ attempt' = 0
  /\ baseSha' = NoSha
  /\ UNCHANGED <<stored, uiSettings, fileIdx, results>>
  /\ pc' = "threw"
  /\ UNCHANGED result

\* The GitHub client throws `message`: the handler's catch clause answers.
Throw(message) ==
  /\ existing' = NoSha
  /\ prevExisting' = NoSha
  /\ attempt' = 0
  /\ baseSha' = NoSha
  /\ UNCHANGED <<stored, uiSettings, fileIdx, results>>
  /\ CASE caller = "handleCommitRequest" ->
            /\ result' = Append(result, CommitFailed(formatGitHubError(message)))
            /\ pc' = "posted"
       [] caller = "onmessage" ->
            /\ result' = Append(result, CommitFailed(legacyErrorText(message)))
            /\ pc' = "posted"
       [] OTHER ->
            /\ pc' = "threw"
            /\ UNCHANGED result

\* What no step of the GitHub client touches.
clientFrame ==
  /\ postMessage(<<>>)
  /\ UNCHANGED <<retry, build, util>>
  /\ UNCHANGED <<token, caller, msg, settings, files, before, prev, interfered, inProgress,
                 requests, messages>>

\* ------------------------------------------------------------------------
\* The GitHub client
\* ------------------------------------------------------------------------

\* parsed?.meta?.contentHash of the decoded, parsed file content.
embeddedHash(content) ==
  IF content.layout = "meta" THEN content.hash ELSE NoHash

\* embeddedHash && embeddedHash === currentHash
hashMatches(file, currentHash) ==
  embeddedHash(file.content) # NoHash /\ embeddedHash(file.content) = currentHash

\* The file upsertFile is working on.
options == files[fileIdx]

\* body.sha: existing ? existing.sha : undefined
bodySha == existing

\* The sha of attemptWrite's PUT: prevExisting ? prevExisting.sha : body.sha
putSha == IF prevExisting # NoSha THEN prevExisting ELSE bodySha

\* Mutation of refNotFound: every status but 200 counts as "no such branch".
refNotFound_orUnreadable(status) == status # 200

\* ref.status !== 404, negated: the target branch does not exist.
refNotFound(status) == status = 404

\* ensureBranch: read the target ref.
ensureBranch_ref ==
  /\ pc = "ref"
  /\ clientFrame
  /\ \E f \in ghFetchObserved :
       IF f.threw
       THEN Net(<<>>, "GET ref", NoSha, 0, NoFile, f.calls) /\ Throw(f.error)
       ELSE \E status \in {200, 404, 500} :
              /\ Net(<<>>, "GET ref", NoSha, status, NoFile, f.calls)
              /\ IF status = 200 THEN Goto("get", NoSha, NoSha, 0, NoSha)
                 ELSE IF ~refNotFound(status)
                 THEN Throw("Failed reading branch: " \o ToString(status))
                 ELSE Goto("repo", NoSha, NoSha, 0, NoSha)

\* ensureBranch: read the repository metadata (default_branch).
ensureBranch_repo ==
  /\ pc = "repo"
  /\ clientFrame
  /\ \E f \in ghFetchObserved :
       IF f.threw
       THEN Net(log, "GET repo", NoSha, 0, NoFile, f.calls) /\ Throw(f.error)
       ELSE \E status \in {200, 404} :
              /\ Net(log, "GET repo", NoSha, status, NoFile, f.calls)
              /\ IF ~IsOk(status) THEN Throw("Cannot read repository metadata")
                 ELSE Goto("baseRef", NoSha, NoSha, 0, NoSha)

\* The answers of the refs API to a read of the default branch's ref.
RefAnswers ==
  {[status |-> 404, sha |-> NoSha]} \cup {[status |-> 200, sha |-> c] : c \in CommitShas}

\* ensureBranch: read the default branch's ref.
ensureBranch_baseRef ==
  /\ pc = "baseRef"
  /\ clientFrame
  /\ \E f \in ghFetchObserved :
       IF f.threw
       THEN Net(log, "GET defaultRef", NoSha, 0, NoFile, f.calls) /\ Throw(f.error)
       ELSE \E r \in RefAnswers :
              /\ Net(log, "GET defaultRef", NoSha, r.status, [NoFile EXCEPT !.sha = r.sha], f.calls)
              /\ IF ~IsOk(r.status) THEN Throw("Cannot read default branch ref")
                 ELSE Goto("create", NoSha, NoSha, 0, r.sha)

\* ensureBranch: create the target ref at the default branch's commit.
ensureBranch_create ==
  /\ pc = "create"
  /\ clientFrame
  /\ \E f \in ghFetchObserved :
       IF f.threw
       THEN Net(log, "POST refs", baseSha, 0, NoFile, f.calls) /\ Throw(f.error)
       ELSE \E status \in {201, 422} :
              /\ Net(log, "POST refs", baseSha, status, NoFile, f.calls)
              /\ IF ~IsOk(status) THEN Throw("Failed to create branch")
                 ELSE Goto("get", NoSha, NoSha, 0, NoSha)

\* Mutation of getExistingFile_failed: every answer is taken for the file.
getExistingFile_failed_never(status) == FALSE

\* getExistingFile: !res.ok for an answer that is not 404.
getExistingFile_failed(status) == ~IsOk(status)

\* upsertFile: getExistingFile, then the hash comparison.
upsertFile_existing ==
  /\ pc = "get"
  /\ clientFrame
  /\ \E f \in ghFetchObserved :
       IF f.threw
       THEN Net(log, "GET contents", NoSha, 0, NoFile, f.calls) /\ Throw(f.error)
       ELSE \E r \in ContentsAnswers(options.path) :
              /\ Net(log, "GET contents", NoSha, r.status, r.file, f.calls)
              /\ IF r.status = 404 THEN Goto("put", NoSha, NoSha, 0, NoSha)
                 ELSE IF getExistingFile_failed(r.status)
                 THEN Throw("Failed reading existing file: " \o ToString(r.status))
                 ELSE IF hashMatches(r.file, options.contentHash)
                 THEN Return([updated |-> FALSE, skipped |-> TRUE, url |-> r.file.html_url])
                 ELSE Goto("put", r.file.sha, r.file.sha, 0, NoSha)

\* Mutation of conflictRetry: the attempt number is not looked at.
conflictRetry_everyTime(status, att) == status = 409

\* putRes.status === 409 && attempt === 0
conflictRetry(status, att) == status = 409 /\ att = 0

\* attemptWrite: the PUT and what follows its answer.
attemptWrite ==
  /\ pc = "put"
  /\ clientFrame
  /\ \E f \in ghFetchObserved :
       IF f.threw
       THEN Net(log, "PUT contents", putSha, 0, NoFile, f.calls) /\ Throw(f.error)
       ELSE \E status \in {200, 409, 422} :
              /\ Net(log, "PUT contents", putSha, status, NoFile, f.calls)
              /\ IF conflictRetry(status, attempt)
                 THEN Goto("refetch", existing, prevExisting, attempt, NoSha)
                 ELSE IF ~IsOk(status)
                 THEN Throw("Failed to write file: " \o ToString(status))
                 ELSE Return([updated |-> TRUE, skipped |-> FALSE,
                              url |-> htmlUrl(options.path)])

\* attemptWrite after a 409: refetch, compare, and retry with `latest`.
attemptWrite_refetch ==
  /\ pc = "refetch"
  /\ clientFrame
  /\ \E f \in ghFetchObserved :
       IF f.threw
       THEN Net(log, "GET contents", NoSha, 0, NoFile, f.calls) /\ Throw(f.error)
       ELSE \E r \in ContentsAnswers(options.path) :
              /\ Net(log, "GET contents", NoSha, r.status, r.file, f.calls)
              /\ IF r.status = 404 THEN Goto("put", existing, NoSha, 1, NoSha)
                 ELSE IF getExistingFile_failed(r.status)
                 THEN Throw("Failed reading existing file: " \o ToString(r.status))
                 ELSE IF hashMatches(r.file, options.contentHash)
                 THEN Return([updated |-> FALSE, skipped |-> TRUE, url |-> r.file.html_url])
                 ELSE Goto("put", existing, r.file.sha, 1, NoSha)

\* ------------------------------------------------------------------------
\* The plugin's message handlers
\* ------------------------------------------------------------------------

\* startCommit in the UI, and the arrival of its COMMIT_REQUEST at `who`.
startCommit(who, m) ==
  /\ requests < MaxRequests
  /\ requests' = requests + 1
  /\ UNCHANGED messages
  /\ inProgress' = TRUE
  /\ caller' = who
  /\ msg' = m
  /\ before' = [stored |-> stored, messages |-> messages]
  /\ postMessage(<<>>)
  /\ UNCHANGED <<retry, build, util>>
  /\ UNCHANGED <<stored, token, uiSettings, prev, interfered, network, settings, files, fileIdx,
                 results, log, existing, prevExisting, attempt, baseSha>>

\* Mutation of handleCommitRequest: the dryRun flag is not looked at.
handleCommitRequest_ignoringDryRun(exportBundle, dryRun) ==
  /\ pc = "idle"
  /\ startCommit("handleCommitRequest",
            [exportBundle |-> exportBundle, exportData |-> NoData, dryRun |-> dryRun])
  /\ IF Len(exportBundle.documents) = 0
     THEN /\ result' = <<CommitFailed("No export data to commit")>>
          /\ pc' = "posted"
     ELSE /\ result' = <<>>
          /\ pc' = "token"

\* handleCommitRequest up to its first suspension (the token read).
handleCommitRequest(exportBundle, dryRun) ==
  /\ pc = "idle"
  /\ startCommit("handleCommitRequest",
            [exportBundle |-> exportBundle, exportData |-> NoData, dryRun |-> dryRun])
  /\ IF Len(exportBundle.documents) = 0
     THEN /\ result' = <<CommitFailed("No export data to commit")>>
          /\ pc' = "posted"
     ELSE IF dryRun
     THEN /\ result' = <<CommitOk(TRUE, NoUrl)>>
          /\ pc' = "posted"
     ELSE /\ result' = <<>>
          /\ pc' = "token"

\* Mutation of pendingDocs: nothing is filtered out.
pendingDocs_all(storedHashes, documents) == documents

\* pendingDocs: the documents whose stored hash differs from their hash.
pendingDocs(storedHashes, documents) ==
  SelectSeq(documents, LAMBDA doc : storedHashes[doc.relativePath] # doc.contentHash)

\* files: path, content and contentHash of every pending document.
filesOf(docs) ==
  [i \in 1..Len(docs) |->
     [path |-> docs[i].relativePath, content |-> docs[i].data,
      contentHash |-> docs[i].contentHash]]

\* handleCommitRequest from the token read to the call of commitFiles.
handleCommitRequest_token ==
  /\ pc = "token"
  /\ caller = "handleCommitRequest"
  /\ UNCHANGED <<stored, token, uiSettings, caller, msg, before, prev, interfered, network,
                 fileIdx, results, existing, prevExisting, attempt, baseSha, log,
                 inProgress, requests, messages>>
  /\ postMessage(<<>>)
  /\ UNCHANGED <<retry, build, util>>
  /\ IF token = ""
     THEN /\ result' = Append(result, CommitFailed("Missing token"))
          /\ pc' = "posted"
          /\ UNCHANGED <<settings, files>>
     ELSE /\ settings' = stored
          /\ IF ~validateAllSettings(stored)
             THEN /\ result' = Append(result, CommitFailed("Validation error: Owner is required"))
                  /\ pc' = "posted"
                  /\ UNCHANGED files
             ELSE LET pending == pendingDocs(getLastHashMap(stored), msg.exportBundle.documents)
                  IN IF Len(pending) = 0
                     THEN /\ result' = Append(result, CommitOk(TRUE, NoUrl))
                          /\ pc' = "posted"
                          /\ UNCHANGED files
                     ELSE /\ files' = filesOf(pending)
                          /\ pc' = "ref"
                          /\ UNCHANGED result

\* The COMMIT_REQUEST handler of src/plugin.ts up to the token read.
onmessage_COMMIT_REQUEST(contentHash, dryRun) ==
  /\ pc = "idle"
  /\ startCommit("onmessage",
            [exportBundle |-> NoBundle, exportData |-> [meta |-> [contentHash |-> contentHash]],
             dryRun |-> dryRun])
  /\ IF dryRun
     THEN /\ result' = <<CommitOk(TRUE, NoUrl)>>
          /\ pc' = "posted"
     ELSE /\ result' = <<>>
          /\ pc' = "token"

\* The same handler from the token read to the call of upsertFile.
onmessage_COMMIT_REQUEST_token ==
  /\ pc = "token"
  /\ caller = "onmessage"
  /\ UNCHANGED <<stored, token, uiSettings, caller, msg, before, prev, interfered, network,
                 fileIdx, results, existing, prevExisting, attempt, baseSha, log,
                 inProgress, requests, messages>>
  /\ postMessage(<<>>)
  /\ UNCHANGED <<retry, build, util>>
  /\ IF token = ""
     THEN /\ result' = Append(result, CommitFailed("Missing token"))
          /\ pc' = "posted"
          /\ UNCHANGED <<settings, files>>
     ELSE /\ settings' = stored
          /\ IF ~validateAllSettings(stored)
             THEN /\ result' = Append(result, CommitFailed("Validation error: Owner is required"))
                  /\ pc' = "posted"
                  /\ UNCHANGED files
             ELSE LET newHash == msg.exportData.meta.contentHash
                  IN IF stored.lastHash # NoHash /\ stored.lastHash = newHash
                     THEN /\ result' = Append(result, CommitOk(TRUE, NoUrl))
                          /\ pc' = "posted"
                          /\ UNCHANGED files
                     ELSE /\ files' = <<[path |-> buildRepoPath(stored.folder, stored.filename),
                                         content |-> legacyData(newHash),
                                         contentHash |-> newHash]>>
                          /\ pc' = "ref"
                          /\ UNCHANGED result

\* What the settings and token messages leave alone.
handlerFrame ==
  /\ UNCHANGED <<retry, build, util>>
  /\ messages < MaxMessages
  /\ messages' = messages + 1
  /\ UNCHANGED requests
  /\ UNCHANGED <<pc, caller, msg, settings, files, fileIdx, results, existing, prevExisting,
              attempt, baseSha, log, network, result, before, inProgress>>
  /\ prev' = NoPrev

\* Mutation of hasToken: the stored value itself, not coerced to a boolean.
hasToken_raw(tok) == tok

\* hasToken: !!(await figma.clientStorage.getAsync('github_pat'))
hasToken(tok) == tok # ""

\* postSettingsResponse: the settings and tokenPresent, as SETTINGS_RESPONSE.
postSettingsResponse(seed, tok) ==
  [type |-> "SETTINGS_RESPONSE", payload |-> seed @@ [tokenPresent |-> hasToken(tok)]]

\* figma.ui.postMessage({ type: 'NOTIFY', level, message })
Notify(level, message) == [type |-> "NOTIFY", level |-> level, message |-> message]

\* The answers of GET /user to validateTokenAndNotify.
UserAnswers == {[status |-> 200, login |-> "octocat"], [status |-> 401, login |-> ""]}

TokenValidation(ok, login, error) ==
  [type |-> "TOKEN_VALIDATION", ok |-> ok, login |-> login, error |-> error]

\* validateTokenAndNotify: the TOKEN_VALIDATION messages it can post when the
\* stored token is tok.
validateTokenAndNotify(tok) ==
  IF tok = "" THEN {TokenValidation(FALSE, "", "No token stored")}
  ELSE {TokenValidation(FALSE, "", e) : e \in FetchErrors}
         \cup {IF IsOk(a.status) THEN TokenValidation(TRUE, a.login, "")
               ELSE TokenValidation(FALSE, "", "Status " \o ToString(a.status))
               : a \in UserAnswers}

\* SAVE_SETTINGS: the UI's copy, edited, merged over the defaults and saved.
SAVE_SETTINGS(owner) ==
  LET payload == [uiSettings EXCEPT !.owner = owner]
      merged == payload
  IN /\ stored' = merged
     /\ uiSettings' = merged
     /\ interfered' = (interfered \/ pc # "idle")
     /\ UNCHANGED token
     /\ postMessage(<<postSettingsResponse(merged, token)>>)
     /\ handlerFrame

\* SAVE_TOKEN: store the trimmed token, post the settings, validate the token.
SAVE_TOKEN(t) ==
  /\ t # ""
  /\ token' = t
  /\ uiSettings' = stored
  /\ UNCHANGED <<stored, interfered>>
  /\ \E v \in validateTokenAndNotify(t) :
       postMessage(<<Notify("info", "Token stored locally"),
                     postSettingsResponse(stored, t), v>>)
  /\ handlerFrame

\* CLEAR_TOKEN: delete the token and post the settings.
CLEAR_TOKEN ==
  /\ token' = ""
  /\ uiSettings' = stored
  /\ UNCHANGED <<stored, interfered>>
  /\ postMessage(<<Notify("info", "Token cleared"), postSettingsResponse(stored, "")>>)
  /\ handlerFrame

\* REQUEST_SETTINGS: post the stored settings.
REQUEST_SETTINGS ==
  /\ uiSettings' = stored
  /\ UNCHANGED <<stored, token, interfered>>
  /\ postMessage(<<postSettingsResponse(stored, token)>>)
  /\ handlerFrame

\* VALIDATE_TOKEN: validate the stored token.
VALIDATE_TOKEN ==
  /\ UNCHANGED <<stored, token, uiSettings, interfered>>
  /\ \E v \in validateTokenAndNotify(token) : postMessage(<<v>>)
  /\ handlerFrame

FetchRemoteExportResult(ok, files_, error) ==
  [type |-> "FETCH_REMOTE_EXPORT_RESULT", ok |-> ok, files |-> files_, error |-> error]

\* What handleFetchRemoteExport can record for one path: no file (404), a
\* status, the parsed content, or the message of the error fetch rejected with.
RemoteFileResults(path) ==
  {[path |-> path, data |-> NoFile.content, error |-> ""],
   [path |-> path, data |-> NoFile.content, error |-> "Status 500"]}
    \cup {[path |-> path, data |-> c, error |-> ""] : c \in RemoteContents}
    \cup {[path |-> path, data |-> NoFile.content, error |-> e] : e \in FetchErrors}

\* handleFetchRemoteExport: the FETCH_REMOTE_EXPORT_RESULT messages it can post.
handleFetchRemoteExport(paths) ==
  IF Len(paths) = 0 THEN {FetchRemoteExportResult(TRUE, <<>>, "")}
  ELSE IF stored.owner = ""
  THEN {FetchRemoteExportResult(FALSE, <<>>,
                                "Configure repository settings to fetch remote files")}
  ELSE IF token = "" THEN {FetchRemoteExportResult(FALSE, <<>>, "Missing token")}
  ELSE {FetchRemoteExportResult(TRUE, <<r>>, "") : r \in RemoteFileResults(paths[1])}

\* FETCH_REMOTE_EXPORT: read the files at `paths` from the branch.
FETCH_REMOTE_EXPORT(paths) ==
  /\ UNCHANGED <<stored, token, uiSettings, interfered>>
  /\ \E m \in handleFetchRemoteExport(paths) : postMessage(<<m>>)
  /\ handlerFrame

\* handleMessage in the UI takes the COMMIT_RESULT: the commit is over.
handleMessage_COMMIT_RESULT ==
  /\ pc = "posted"
  /\ pc' = "idle"
  /\ postMessage(<<>>)
  /\ UNCHANGED <<retry, build, util>>
  /\ inProgress' = FALSE
  /\ result' = <<>>
  /\ msg' = NoMsg
  /\ settings' = defaultSettings
  /\ files' = <<>>
  /\ fileIdx' = 1
  /\ results' = <<>>
  /\ log' = <<>>
  /\ network' = FALSE
  /\ before' = NoBefore
  /\ prev' = IF result[1].ok /\ ~msg.dryRun /\ messages = before.messages
             THEN [msg |-> msg, updated |-> \E i \in 1..Len(results) : results[i].updated]
             ELSE NoPrev
  /\ interfered' = FALSE
  /\ UNCHANGED <<stored, token, uiSettings, caller, existing, prevExisting, attempt, baseSha,
                 requests, messages>>

\* ------------------------------------------------------------------------
\* Specifications
\* ------------------------------------------------------------------------

Tokens == {"ghp_1"}

\* The variables a COMMIT_REQUEST works with, before any request.
InitRequest ==
  /\ msg = NoMsg
  /\ settings = defaultSettings
  /\ fileIdx = 1
  /\ results = <<>>
  /\ existing = NoSha
  /\ prevExisting = NoSha
  /\ attempt = 0
  /\ baseSha = NoSha
  /\ log = <<>>
  /\ network = FALSE
  /\ result = <<>>
  /\ before = NoBefore
  /\ prev = NoPrev
  /\ interfered = FALSE
  /\ inProgress = FALSE
  /\ requests = 0
  /\ messages = 0
  /\ retry = NoRetry
  /\ build = NoBuild
  /\ util = NoUtil

\* What an earlier run may have left in the document: a configured owner,
\* and the single hash that src/plugin.ts stores.
InitialSettings ==
  {[defaultSettings EXCEPT !.owner = "acme", !.lastHash = h] : h \in Hashes \cup {NoHash}}

\* The plugin after figma.showUI and the first SETTINGS_RESPONSE.
Init ==
  /\ stored \in InitialSettings
  /\ uiSettings = stored
  /\ token \in Tokens
  /\ pc = "idle"
  /\ caller = "handleCommitRequest"
  /\ files = <<>>
  /\ sent = Unwatched
  /\ InitRequest

Client ==
  \/ ensureBranch_ref
  \/ ensureBranch_repo
  \/ ensureBranch_baseRef
  \/ ensureBranch_create
  \/ upsertFile_existing
  \/ attemptWrite
  \/ attemptWrite_refetch

Messages ==
  \/ \E o \in Owners : SAVE_SETTINGS(o)
  \/ \E t \in Tokens : SAVE_TOKEN(t)
  \/ CLEAR_TOKEN
  \/ REQUEST_SETTINGS
  \/ handleMessage_COMMIT_RESULT

\* The plugin with handleCommitRequest.
Next ==
  \/ \E b \in Bundles, dryRun \in BOOLEAN : handleCommitRequest(b, dryRun)
  \/ handleCommitRequest_token
  \/ Client
  \/ Messages

Spec == Init /\ [][Next]_vars

\* The bundles of the fair runs: the DTCG bundles and the bundle without
\* documents.
LiveBundles == DtcgBundles \cup {b \in NativeBundles : b.documents = <<>>}

NextLive ==
  \/ \E b \in LiveBundles, dryRun \in BOOLEAN : handleCommitRequest(b, dryRun)
  \/ handleCommitRequest_token
  \/ Client
  \/ Messages

\* Every await of the handler settles (the storage reads resolve, each fetch
\* resolves or rejects, withRetry gives up after maxAttempts), and the UI's
\* message listener handles a posted COMMIT_RESULT.
Fairness ==
  /\ WF_vars(handleCommitRequest_token)
  /\ WF_vars(Client)
  /\ WF_vars(handleMessage_COMMIT_RESULT)

SpecLive == Init /\ [][NextLive]_vars /\ Fairness

\* The plugin of src/plugin.ts, which commits one document with upsertFile.
NextLegacy ==
  \/ \E h \in Hashes, dryRun \in BOOLEAN : onmessage_COMMIT_REQUEST(h, dryRun)
  \/ onmessage_COMMIT_REQUEST_token
  \/ Client
  \/ Messages

SpecLegacy == Init /\ [][NextLegacy]_vars

\* The plugin with the messages it posts watched: every message of the UI is
\* handled, the commits are those of single-document bundles.
InitMessaging ==
  /\ stored \in InitialSettings
  /\ uiSettings = stored
  /\ token \in Tokens \cup {""}
  /\ pc = "idle"
  /\ caller = "handleCommitRequest"
  /\ files = <<>>
  /\ sent = <<>>
  /\ InitRequest

\* The lists of paths a FETCH_REMOTE_EXPORT asks for.
FetchPaths == {<<>>} \cup {<<p>> : p \in Paths}

NextMessaging ==
  \/ pc = "idle" /\ \E b \in DtcgBundles, dryRun \in BOOLEAN : handleCommitRequest(b, dryRun)
  \/ handleCommitRequest_token
  \/ Client
  \/ Messages
  \/ VALIDATE_TOKEN
  \/ \E paths \in FetchPaths : FETCH_REMOTE_EXPORT(paths)

SpecMessaging == InitMessaging /\ [][NextMessaging]_vars

\* ------------------------------------------------------------------------
\* withRetry, one await at a time
\* ------------------------------------------------------------------------

\* The largest maxAttempts a caller passes.
MaxAttemptsOption == 3

\* The most collections a file of the per-collection naming check holds.
MaxCollections == 3

\* The most entries of an object and elements of an array in the value trees
\* stableStringify is called with.
MaxEntries == 2

\* What fn can resolve with, and the (lower-cased) messages it can reject with.
RetryValues == {"v1", "v2"}
RetryErrors ==
  {"network error", "401 unauthorized", "status 404 for tokens-500.json", "custom error"}
RetryOutcomes ==
  {[ok |-> TRUE, value |-> v, error |-> ""] : v \in RetryValues}
    \cup {[ok |-> FALSE, value |-> "", error |-> e] : e \in RetryErrors}

\* The options callers pass.  shouldRetry is the default predicate, a
\* predicate answering false, or one answering true for the first attempt.
RetryOptions ==
  {[maxAttempts |-> n, initialDelay |-> i, maxDelay |-> m, backoffMultiplier |-> b,
    shouldRetry |-> p, onRetry |-> o] :
     n \in 0..MaxAttemptsOption, i \in {1000, 3000}, m \in {2000, 10000}, b \in {1, 2},
     p \in {"default", "never", "once"}, o \in BOOLEAN}

Min(a, b) == IF a <= b THEN a ELSE b

\* Mutation of caught: the first error is kept.
caught_first(lastError, error) == IF lastError = "" THEN error ELSE lastError

\* lastError = error instanceof Error ? error : new Error(String(error))
caught(lastError, error) == error

\* Mutation of shouldRetryCall: the attempt is counted from 0.
shouldRetryCall_zeroBased(opts, error, att) ==
  [error |-> error, attempt |-> att - 1,
   returned |-> CASE opts.shouldRetry = "default" -> defaultShouldRetry(error)
                  [] opts.shouldRetry = "never" -> FALSE
                  [] opts.shouldRetry = "once" -> att - 1 < 2]

\* shouldRetry(lastError, attempt): its arguments and what it returned.
shouldRetryCall(opts, error, att) ==
  [error |-> error, attempt |-> att,
   returned |-> CASE opts.shouldRetry = "default" -> defaultShouldRetry(error)
                  [] opts.shouldRetry = "never" -> FALSE
                  [] opts.shouldRetry = "once" -> att < 2]

\* withRetry leaves the plugin alone.
pluginFrame ==
  UNCHANGED <<stored, token, uiSettings, pc, caller, msg, settings, files, fileIdx, results,
              existing, prevExisting, attempt, baseSha, log, network, result, before, prev,
              interfered, inProgress, requests, messages, sent>>

\* withRetry(fn, opts) up to its first await: the loop is entered when
\* 1 <= maxAttempts, otherwise the never-assigned lastError is thrown.
withRetry_start(opts) ==
  /\ retry.pc = "off"
  /\ retry' = [retry EXCEPT !.options = opts, !.attempt = 1,
                            !.currentDelay = opts.initialDelay,
                            !.pc = IF 1 <= opts.maxAttempts THEN "fn" ELSE "threw",
                            !.error = IF 1 <= opts.maxAttempts THEN "" ELSE "undefined"]
  /\ pluginFrame
  /\ UNCHANGED <<build, util>>

\* await fn() settles with `out`: return, or the catch block up to its throw
\* or to await delay(currentDelay).
withRetry_fn(out) ==
  /\ retry.pc = "fn"
  /\ LET called == Append(retry.fn, out)
         err == caught(retry.lastError, out.error)
         sr == shouldRetryCall(retry.options, err, retry.attempt)
     IN retry' =
          IF out.ok
          THEN [retry EXCEPT !.pc = "returned", !.fn = called, !.value = out.value]
          ELSE IF retry.attempt >= retry.options.maxAttempts
          THEN [retry EXCEPT !.pc = "threw", !.fn = called, !.lastError = err, !.error = err]
          ELSE IF ~sr.returned
          THEN [retry EXCEPT !.pc = "threw", !.fn = called, !.lastError = err, !.error = err,
                             !.shouldRetry = Append(@, sr)]
          ELSE [retry EXCEPT !.pc = "delay", !.fn = called, !.lastError = err,
                             !.shouldRetry = Append(@, sr),
                             !.onRetry = IF retry.options.onRetry
                                         THEN Append(@, [error |-> err,
                                                         attempt |-> retry.attempt,
                                                         delay |-> retry.currentDelay])
                                         ELSE @,
                             !.delay = Append(@, retry.currentDelay)]
  /\ pluginFrame
  /\ UNCHANGED <<build, util>>

\* await delay(currentDelay) settles: the next delay is computed and the loop
\* goes on with the next attempt.
withRetry_delay ==
  /\ retry.pc = "delay"
  /\ retry' = [retry EXCEPT
                 !.currentDelay = Min(@ * retry.options.backoffMultiplier,
                                      retry.options.maxDelay),
                 !.attempt = @ + 1,
                 !.pc = IF retry.attempt + 1 <= retry.options.maxAttempts
                        THEN "fn" ELSE "threw",
                 !.error = IF retry.attempt + 1 <= retry.options.maxAttempts
                           THEN "" ELSE retry.lastError]
  /\ pluginFrame
  /\ UNCHANGED <<build, util>>

\* No plugin activity: the state in which withRetry is followed alone.
InitRetry ==
  /\ stored = defaultSettings
  /\ uiSettings = stored
  /\ token = ""
  /\ pc = "idle"
  /\ caller = "handleCommitRequest"
  /\ files = <<>>
  /\ sent = Unwatched
  /\ InitRequest

NextRetry ==
  \/ \E opts \in RetryOptions : withRetry_start(opts)
  \/ \E out \in RetryOutcomes : withRetry_fn(out)
  \/ withRetry_delay

SpecRetry == InitRetry /\ [][NextRetry]_vars

\* ------------------------------------------------------------------------
\* The export builders, one await at a time
\* ------------------------------------------------------------------------

PLUGIN_VERSION == "0.2.0"

\* figmaApi.root.name
fileName == "Design System"

\* figma.variables.getLocalVariableCollectionsAsync()
collections ==
  <<[id |-> "VariableCollectionId:1:0", name |-> "Colors",
     modes |-> <<[modeId |-> "1:0", name |-> "Light"], [modeId |-> "1:1", name |-> "Dark"]>>],
    [id |-> "VariableCollectionId:2:0", name |-> "Spacing",
     modes |-> <<[modeId |-> "2:0", name |-> "Default"]>>]>>

\* Ids of variables of libraries, which the file does not hold.
RemoteIds == {"VariableID:9:1", "unfetchable-var-456"}

\* The raw values of a mode: the numbers 8 and 0, or an alias of the first
\* local variable or of a library variable.
RawValues ==
  {[type |-> "FLOAT", id |-> "", value |-> n] : n \in {8, 0}}
    \cup {[type |-> "VARIABLE_ALIAS", id |-> i, value |-> 0] :
            i \in {"VariableID:1:1"} \cup RemoteIds}

\* The names the second variable may have: a name of its own, a name that
\* differs from the first variable's by a stripped character, and a dotted
\* name below the first variable's path.
VariableNames == {"bg/accent", "bgbase", "colors.bgbase.dark"}

\* figma.variables.getLocalVariablesAsync(): two variables of the first
\* collection and one of the second, with their values by mode in key order.
LocalVariables ==
  {<<[id |-> "VariableID:1:1", name |-> "bg/base", resolvedType |-> "FLOAT",
      variableCollectionId |-> "VariableCollectionId:1:0",
      valuesByMode |-> <<[modeId |-> "1:0", raw |-> [type |-> "FLOAT", id |-> "", value |-> 8]],
                         [modeId |-> "1:1", raw |-> [type |-> "FLOAT", id |-> "", value |-> 8]]>>],
     [id |-> "VariableID:1:2", name |-> n, resolvedType |-> "FLOAT",
      variableCollectionId |-> "VariableCollectionId:1:0",
      valuesByMode |-> <<[modeId |-> "1:0", raw |-> a], [modeId |-> "1:1", raw |-> b]>>],
     [id |-> "VariableID:2:1", name |-> "base", resolvedType |-> "FLOAT",
      variableCollectionId |-> "VariableCollectionId:2:0",
      valuesByMode |-> <<[modeId |-> "2:0", raw |-> c]>>]>> :
     n \in VariableNames, a \in RawValues, b \in RawValues, c \in RawValues}

\* new Date().toISOString()
ExportTimes == {"2025-01-01T00:00:00.000Z", "2025-06-30T12:00:00.000Z"}

\* What getVariableByIdAsync does for the id of a library variable: it
\* resolves with the variable, resolves with null, or rejects.
RemoteVariableAnswers ==
  {[kind |-> "variable", name |-> "Brand Primary Color"],
   [kind |-> "null", name |-> ""],
   [kind |-> "rejected", name |-> ""]}

\* normalizeModeValue: an alias object becomes ALIAS with refVariableId.
normalizeModeValue(raw) ==
  IF raw.type = "VARIABLE_ALIAS"
  THEN [type |-> "ALIAS", refVariableId |-> raw.id, value |-> 0]
  ELSE [type |-> "NUMBER", refVariableId |-> "", value |-> raw.value]

UpperCase == "ABCDEFGHIJKLMNOPQRSTUVWXYZ"
LowerCase == "abcdefghijklmnopqrstuvwxyz"
SlugChars == "abcdefghijklmnopqrstuvwxyz0123456789-"

\* String.prototype.toLowerCase
toLowerCase(s) ==
  LET F[n \in 0..Len(s)] ==
        IF n = 0 THEN ""
        ELSE LET c == SubSeq(s, n, n)
                 i == indexOf(UpperCase, c)
             IN F[n - 1] \o (IF i > 0 THEN SubSeq(LowerCase, i, i) ELSE c)
  IN F[Len(s)]

\* .replace(/\s+/g, '-')
replaceWhitespace(s) ==
  LET F[n \in 0..Len(s)] ==
        IF n = 0 THEN ""
        ELSE IF SubSeq(s, n, n) # " " THEN F[n - 1] \o SubSeq(s, n, n)
        ELSE IF n > 1 /\ SubSeq(s, n - 1, n - 1) = " " THEN F[n - 1]
        ELSE F[n - 1] \o "-"
  IN F[Len(s)]

\* .replace(/[^a-z0-9-]/g, '')
removeSpecial(s) ==
  LET F[n \in 0..Len(s)] ==
        IF n = 0 THEN ""
        ELSE F[n - 1] \o (IF indexOf(SlugChars, SubSeq(s, n, n)) > 0
                          THEN SubSeq(s, n, n) ELSE "")
  IN F[Len(s)]

\* buildTokenPath: a name with dots as it is, otherwise collection and name,
\* lower-cased, hyphenated and stripped.
buildTokenPath(collectionName, variableName) ==
  IF Contains(variableName, ".") THEN variableName
  ELSE removeSpecial(replaceWhitespace(toLowerCase(collectionName))) \o "."
         \o removeSpecial(replaceWhitespace(toLowerCase(variableName)))

\* collections.find((c) => c.id === id): its index, 0 when there is none.
findCollection(id) ==
  IF \E i \in 1..Len(collections) : collections[i].id = id
  THEN CHOOSE i \in 1..Len(collections) : collections[i].id = id
  ELSE 0

\* The alias targets of the values of one variable, in the order of its modes.
aliasTargetsOf(values) ==
  LET F[i \in 0..Len(values)] ==
        IF i = 0 THEN <<>>
        ELSE LET normalized == normalizeModeValue(values[i].raw)
             IN IF normalized.type = "ALIAS" /\ normalized.refVariableId # ""
                THEN Append(F[i - 1], normalized.refVariableId)
                ELSE F[i - 1]
  IN F[Len(values)]

\* The alias targets of all variables, in the order in which they are scanned.
aliasTargets(allVars) ==
  LET F[i \in 0..Len(allVars)] ==
        IF i = 0 THEN <<>> ELSE F[i - 1] \o aliasTargetsOf(allVars[i].valuesByMode)
  IN F[Len(allVars)]

\* Mutation of setAdd: every id is appended.
setAdd_again(ids, id) == Append(ids, id)

\* Set.prototype.add, the set kept in insertion order.
setAdd(ids, id) ==
  IF \E j \in 1..Len(ids) : ids[j] = id THEN ids ELSE Append(ids, id)

\* The ids the scan of the alias targets collects: those not in `known`.
remoteIdsOf(allVars, known) ==
  LET targets == aliasTargets(allVars)
      F[i \in 0..Len(targets)] ==
        IF i = 0 THEN <<>>
        ELSE IF targets[i] \in known THEN F[i - 1]
        ELSE setAdd(F[i - 1], targets[i])
  IN F[Len(targets)]

\* Phase 1 of buildDtcgJson: variable id -> token path.
localPaths(allVars) ==
  [id \in {allVars[i].id : i \in {j \in 1..Len(allVars) :
                                    findCollection(allVars[j].variableCollectionId) > 0}} |->
     LET v == allVars[CHOOSE i \in 1..Len(allVars) : allVars[i].id = id]
     IN buildTokenPath(collections[findCollection(v.variableCollectionId)].name, v.name)]

\* Mutation of convertAliasToDtcg: an unknown id is written as a reference.
convertAliasToDtcg_defaulted(refVariableId, variablePathMap) ==
  IF refVariableId \in DOMAIN variablePathMap /\ variablePathMap[refVariableId] # ""
  THEN [threw |-> FALSE, value |-> "{" \o variablePathMap[refVariableId] \o "}"]
  ELSE [threw |-> FALSE, value |-> "{" \o refVariableId \o "}"]

\* convertAliasToDtcg: "{path}", or the error it throws.
convertAliasToDtcg(refVariableId, variablePathMap) ==
  IF refVariableId \in DOMAIN variablePathMap /\ variablePathMap[refVariableId] # ""
  THEN [threw |-> FALSE, value |-> "{" \o variablePathMap[refVariableId] \o "}"]
  ELSE [threw |-> TRUE,
        value |-> "Cannot resolve alias: variable ID \"" \o refVariableId
                    \o "\" not found in path map"]

\* The keywords of shouldBeDimension.
dimensionKeywords ==
  <<"width", "height", "size", "padding", "margin", "spacing", "gap", "radius", "border",
    "offset", "top", "bottom", "left", "right", "inset", "stroke", "corner">>

\* /(?:^|[-_])([xy])(?:[-_]|$)/i on a lower-cased name: an x or a y that
\* stands alone between separators.
coordinatePattern(lowerName) ==
  \E i \in 1..Len(lowerName) :
    /\ SubSeq(lowerName, i, i) \in {"x", "y"}
    /\ (i = 1 \/ SubSeq(lowerName, i - 1, i - 1) \in {"-", "_"})
    /\ (i = Len(lowerName) \/ SubSeq(lowerName, i + 1, i + 1) \in {"-", "_"})

\* Mutation of shouldBeDimension: no FLOAT is a dimension.
shouldBeDimension_never(figmaType, variableName) == FALSE

\* shouldBeDimension: a FLOAT whose name holds a keyword or a coordinate.
shouldBeDimension(figmaType, variableName) ==
  /\ figmaType = "FLOAT"
  /\ LET lowerName == toLowerCase(variableName)
     IN \/ \E k \in 1..Len(dimensionKeywords) : Contains(lowerName, dimensionKeywords[k])
        \/ coordinatePattern(lowerName)

\* The token paths of the local variables.
TokenPaths ==
  {buildTokenPath(collections[i].name, n) :
     i \in 1..Len(collections), n \in {"bg/base", "base"} \cup VariableNames}

\* shouldBeDimension of a FLOAT, tabulated for the token paths.
shouldBeDimensionTable == [p \in TokenPaths |-> shouldBeDimension("FLOAT", p)]

\* shouldBeDimension as its callers get it.
shouldBeDimensionOf(figmaType, variableName) ==
  IF figmaType = "FLOAT" /\ variableName \in TokenPaths
  THEN shouldBeDimensionTable[variableName]
  ELSE shouldBeDimension(figmaType, variableName)

\* convertToDimension: { value, unit: 'px' }, held as its JSON text.
convertToDimension(value) == "{\"value\":" \o ToString(value) \o ",\"unit\":\"px\"}"

\* mapFigmaTypeToDtcg
mapFigmaTypeToDtcg(figmaType, variableName) ==
  CASE figmaType = "COLOR" -> "color"
    [] figmaType = "FLOAT" ->
         IF shouldBeDimensionOf(figmaType, variableName) THEN "dimension" ELSE "number"
    [] figmaType = "STRING" ->
         IF Contains(toLowerCase(variableName), "font") THEN "fontFamily" ELSE "string"
    [] figmaType = "BOOLEAN" -> "boolean"
    [] OTHER -> "string"

\* convertValue: an alias by convertAliasToDtcg; a number as a dimension when
\* shouldBeDimension says so, otherwise as it is (held as its JSON text).
convertValue(modeValue, figmaType, variableName, variablePathMap) ==
  IF modeValue.type = "ALIAS" /\ modeValue.refVariableId # ""
  THEN convertAliasToDtcg(modeValue.refVariableId, variablePathMap)
  ELSE [threw |-> FALSE,
        value |-> IF shouldBeDimensionOf(figmaType, variableName)
                  THEN convertToDimension(modeValue.value)
                  ELSE ToString(modeValue.value)]

\* stableStringify of a value of the model: a record has no key order, and
\* comparing the value brings it into its normal form, so that equal values
\* give the same text however they were built.
stableStringify_value(value) == IF value = value THEN ToString(value) ELSE ""

\* The digest of a text.
sha256(json) == "sha256:" \o json

\* variable.valuesByMode[modeId] of a variable's values (the last entry stands
\* for undefined when the mode has no value).
valueOfMode(values, modeId) ==
  IF \E i \in 1..Len(values) : values[i].modeId = modeId
  THEN values[CHOOSE i \in 1..Len(values) : values[i].modeId = modeId].raw
  ELSE [type |-> "undefined", id |-> "", value |-> 0]

\* !value of a raw mode value: undefined and 0 are falsy, an alias object is
\* not.
falsy(raw) == raw.type = "undefined" \/ (raw.type = "FLOAT" /\ raw.value = 0)

\* The conversions Phase 2 makes for one variable, in their order: the value
\* of each mode that has a truthy raw value.
modeConversions(variable, tokenPath, variablePathMap) ==
  LET modes == collections[findCollection(variable.variableCollectionId)].modes
      F[i \in 0..Len(modes)] ==
        IF i = 0 THEN <<>>
        ELSE LET modeValue == valueOfMode(variable.valuesByMode, modes[i].modeId)
             IN IF falsy(modeValue) THEN F[i - 1]
                ELSE Append(F[i - 1],
                            [name |-> modes[i].name,
                             converted |-> convertValue(normalizeModeValue(modeValue),
                                                        variable.resolvedType, tokenPath,
                                                        variablePathMap)])
  IN F[Len(modes)]

\* Phase 2 for one variable whose first mode has a truthy value: the token
\* with its primary value, its type and its modes.
dtcgToken(variable, tokenPath, variablePathMap) ==
  LET modeValues == modeConversions(variable, tokenPath, variablePathMap)
  IN [value |-> modeValues[1].converted.value,
      type |-> mapFigmaTypeToDtcg(variable.resolvedType, tokenPath),
      modes |-> [i \in 1..Len(modeValues) |->
                   [name |-> modeValues[i].name, value |-> modeValues[i].converted.value]]]

\* The message of the first conversion of a variable that throws, "" when
\* none does.
dtcgToken_error(variable, tokenPath, variablePathMap) ==
  LET modeValues == modeConversions(variable, tokenPath, variablePathMap)
      failing == {i \in 1..Len(modeValues) : modeValues[i].converted.threw}
  IN IF failing = {} THEN ""
     ELSE modeValues[CHOOSE i \in failing : \A j \in failing : i <= j].converted.value

\* The path q lies below the path p.
below(p, q) == Len(q) > Len(p) /\ SubSeq(q, 1, Len(p) + 1) = p \o "."

\* setNestedValue on the tree held as a map from the path of each token to
\* the token: the value replaces what is at the path and below it; a token
\* on the way to the path is an object, so it is kept and the value goes
\* inside it.
setNestedValue(tokens, path, value) ==
  [q \in {r \in DOMAIN tokens : ~below(path, r)} \cup {path} |->
     IF q = path THEN value ELSE tokens[q]]

\* The Phase 2 loop over the first n variables: the tree, and the message of
\* the conversion that threw.
dtcgTokens(allVars, variablePathMap, n) ==
  LET F[i \in 0..n] ==
        IF i = 0 THEN [tokens |-> <<>>, error |-> ""]
        ELSE LET variable == allVars[i]
                 modes == collections[findCollection(variable.variableCollectionId)].modes
             IN IF F[i - 1].error # "" THEN F[i - 1]
                ELSE IF findCollection(variable.variableCollectionId) = 0 THEN F[i - 1]
                ELSE IF variable.id \notin DOMAIN variablePathMap THEN F[i - 1]
                ELSE IF variablePathMap[variable.id] = "" THEN F[i - 1]
                ELSE IF falsy(valueOfMode(variable.valuesByMode, modes[1].modeId))
                THEN F[i - 1]
                ELSE LET tokenPath == variablePathMap[variable.id]
                         error == dtcgToken_error(variable, tokenPath, variablePathMap)
                     IN IF error # "" THEN [F[i - 1] EXCEPT !.error = error]
                        ELSE [F[i - 1] EXCEPT
                                !.tokens = setNestedValue(@, tokenPath,
                                             dtcgToken(variable, tokenPath, variablePathMap))]
  IN F[n]

\* Mutation of dtcgStableContent: the metadata is hashed with the tokens.
dtcgStableContent_withMetadata(tokens, extensions) ==
  [tokens |-> tokens, extensions |-> extensions]

\* stableContent = { ...tokens }: what the DTCG content hash is taken of.
dtcgStableContent(tokens, extensions) == [tokens |-> tokens]

\* The folder and the file name of the settings an export is made with.
exportOptions == [folder |-> "tokens", singleFileName |-> "variables.json"]

\* Phases 3 and 4 of buildDtcgJson and its catch clause, after the Phase 2
\* loop ended with `built`: the root with its content hash, or the error of
\* the first conversion that threw, wrapped.
buildDtcgJson_root(b, now, built, extensions) ==
  IF built.error # ""
  THEN [b EXCEPT !.pc = "threw", !.cause = built.error,
                 !.error = "Failed to build DTCG JSON: " \o built.error]
  ELSE [b EXCEPT !.pc = "returned", !.exportedAt = now,
                 !.documents =
                   <<[tokens |-> built.tokens,
                      extensions |->
                        [extensions EXCEPT
                           !.contentHash =
                             sha256(stableStringify_value(
                                      dtcgStableContent(built.tokens, extensions)))]]>>]

\* Phases 2 to 4 of buildDtcgJson: the tokens of the variables and the
\* metadata, the content hash still to be set.
buildDtcgJson_tokens(b, now) ==
  buildDtcgJson_root(b, now, dtcgTokens(b.allVars, b.variablePathMap, Len(b.allVars)),
                     [exportedAt |-> now, fileName |-> fileName,
                      pluginVersion |-> PLUGIN_VERSION,
                      collectionsCount |-> Len(collections),
                      variablesCount |-> Len(b.allVars), contentHash |-> ""])

\* buildDtcgBundle after buildDtcgJson settled: the root as the one document
\* of the bundle, and the summary; a rejection passes through.
buildDtcgBundle(b) ==
  IF b.pc # "returned" THEN b
  ELSE LET root == b.documents[1]
           contentHash == IF root.extensions.contentHash # ""
                          THEN root.extensions.contentHash
                          ELSE sha256(stableStringify_value([tokens |-> root.tokens]))
       IN [b EXCEPT
             !.documents = <<[id |-> "dtcg:all", exportType |-> "singleFile",
                              relativePath |-> buildRepoPath(exportOptions.folder,
                                                             exportOptions.singleFileName),
                              fileName |-> exportOptions.singleFileName,
                              tokens |-> root.tokens, extensions |-> root.extensions,
                              contentHash |-> contentHash]>>,
             !.summary = [documentsCount |-> 1, contentHash |-> contentHash]]

\* buildExportBundle for the DTCG format, up to the first getVariableByIdAsync
\* of buildDtcgJson: getLocalVariablesAsync rejects with the error `api`, or
\* the path map of the local variables and the set of the alias targets that
\* are not in it are built.
buildDtcgJson(api, allVars, now) ==
  /\ build.pc = "off"
  /\ LET map == localPaths(allVars)
         started == [build EXCEPT !.pc = "fetch", !.builder = "dtcg", !.allVars = allVars,
                                  !.collections = collections,
                                  !.variablePathMap = map,
                                  !.remoteVariableIds = remoteIdsOf(allVars, DOMAIN map)]
     IN build' = IF api # "ok"
                 THEN [build EXCEPT !.pc = "threw", !.builder = "dtcg", !.cause = api,
                                    !.error = "Failed to build DTCG JSON: " \o api]
                 ELSE IF started.remoteVariableIds = <<>>
                 THEN buildDtcgBundle(buildDtcgJson_tokens(started, now)) ELSE started
  /\ pluginFrame
  /\ UNCHANGED <<retry, util>>

\* The path map after getVariableByIdAsync(remoteId) settled: the external
\* path of the variable, nothing for null, the fallback path in the catch.
remotePath(variablePathMap, remoteId, answer) ==
  CASE answer.kind = "variable" ->
         (remoteId :> ("external." \o toLowerCase(replaceWhitespace(answer.name))))
           @@ variablePathMap
    [] answer.kind = "null" -> variablePathMap
    [] answer.kind = "rejected" ->
         (remoteId :> ("external.unknown-" \o SubSeq(remoteId, 1, Min(8, Len(remoteId)))))
           @@ variablePathMap

\* await getVariableByIdAsync(remoteId) settles for the next remote id; after
\* the last one the tokens are built.
buildDtcgJson_remoteVar(answer, now) ==
  /\ build.pc = "fetch"
  /\ build.builder = "dtcg"
  /\ LET remoteId == build.remoteVariableIds[Len(build.getVariableByIdAsync) + 1]
         fetched == [build EXCEPT
                       !.getVariableByIdAsync =
                         Append(@, [id |-> remoteId, answer |-> answer.kind]),
                       !.variablePathMap = remotePath(@, remoteId, answer)]
     IN build' = IF Len(fetched.getVariableByIdAsync) = Len(fetched.remoteVariableIds)
                 THEN buildDtcgBundle(buildDtcgJson_tokens(fetched, now)) ELSE fetched
  /\ pluginFrame
  /\ UNCHANGED <<retry, util>>

\* The variables of a collection, in their order.
variablesOf(allVars, collectionId) ==
  LET F[i \in 0..Len(allVars)] ==
        IF i = 0 THEN <<>>
        ELSE IF allVars[i].variableCollectionId = collectionId
        THEN Append(F[i - 1], allVars[i]) ELSE F[i - 1]
  IN F[Len(allVars)]

\* buildModeValueEntry: a number as it is; an alias with the name of the
\* local or remote variable, or with the id when no name is known.
buildModeValueEntry(modeValue, allVars, remoteVariableNames) ==
  IF modeValue.type = "ALIAS" /\ modeValue.refVariableId # ""
  THEN LET id == modeValue.refVariableId
           referencedName ==
             IF \E i \in 1..Len(allVars) : allVars[i].id = id
             THEN allVars[CHOOSE i \in 1..Len(allVars) : allVars[i].id = id].name
             ELSE IF id \in DOMAIN remoteVariableNames THEN remoteVariableNames[id]
             ELSE ""
       IN [value |-> IF referencedName # "" THEN referencedName ELSE id,
           referencedVariableId |-> id, referencedVariableName |-> referencedName]
  ELSE [value |-> ToString(modeValue.value), referencedVariableId |-> "",
        referencedVariableName |-> ""]

\* buildCollectionPayload: the collection with the nodes of its variables.
buildCollectionPayload(collection, variables, allVars, remoteVariableNames) ==
  [id |-> collection.id, name |-> collection.name, modes |-> collection.modes,
   variables |->
     [i \in 1..Len(variables) |->
        [id |-> variables[i].id, name |-> variables[i].name,
         valueByMode |->
           [m \in 1..Len(collection.modes) |->
              [modeId |-> collection.modes[m].modeId,
               entry |-> buildModeValueEntry(
                           normalizeModeValue(valueOfMode(variables[i].valuesByMode,
                                                          collection.modes[m].modeId)),
                           allVars, remoteVariableNames)]]]],
   collectionVariablesCount |-> Len(variables)]

\* The fields buildDocumentData sets to undefined in its hash input.
hashOmitted == {"contentHash", "exportedAt"}

\* buildDocumentData: the document of the given collections, with the hash
\* of its stable text.
buildDocumentData(colls, variables, exportedAt, exportType, collectionId, allVars, names) ==
  LET document ==
        [collectionsCount |-> Len(colls),
         variablesCount |-> Len(variables),
         contentHash |-> "", exportedAt |-> exportedAt, fileName |-> fileName,
         pluginVersion |-> PLUGIN_VERSION, exportFormat |-> "figma-native",
         exportType |-> exportType, collectionId |-> collectionId,
         collections |->
           [i \in 1..Len(colls) |->
              buildCollectionPayload(colls[i], variablesOf(variables, colls[i].id),
                                     allVars, names)]]
      hashInput == stableStringify_value([f \in DOMAIN document \ hashOmitted |-> document[f]])
  IN [document EXCEPT !.contentHash = sha256(hashInput)]

AlnumChars == "abcdefghijklmnopqrstuvwxyz0123456789"

\* s without its leading and trailing characters of the set cs: trim() and
\* .replace(/^-+|-+$/g, '').
strip(s, cs) ==
  LET kept == {i \in 1..Len(s) : SubSeq(s, i, i) \notin cs}
  IN IF kept = {} THEN ""
     ELSE SubSeq(s, CHOOSE i \in kept : \A j \in kept : i <= j,
                    CHOOSE i \in kept : \A j \in kept : i >= j)

\* .replace(/[^a-z0-9]+/g, '-')
replaceNonAlnum(s) ==
  LET alnum(n) == indexOf(AlnumChars, SubSeq(s, n, n)) > 0
      F[n \in 0..Len(s)] ==
        IF n = 0 THEN ""
        ELSE IF alnum(n) THEN F[n - 1] \o SubSeq(s, n, n)
        ELSE IF n > 1 /\ ~alnum(n - 1) THEN F[n - 1]
        ELSE F[n - 1] \o "-"
  IN F[Len(s)]

\* slugify
slugify(value, fallback) ==
  LET base == replaceNonAlnum(toLowerCase(strip(value, {" "})))
      cleaned == strip(base, {"-"})
  IN IF cleaned # "" THEN cleaned ELSE fallback

\* The slugs the per-collection loop gives to the collections, with its
\* slugUsage map: the base for its first use, base-(n+1) after n uses.
collectionSlugs(colls) ==
  LET F[i \in 0..Len(colls)] ==
        IF i = 0 THEN [slugs |-> <<>>, slugUsage |-> <<>>]
        ELSE LET slugBase == slugify(colls[i].name, "collection-" \o ToString(i))
                 usage == F[i - 1].slugUsage
                 occurrences == IF slugBase \in DOMAIN usage THEN usage[slugBase] ELSE 0
                 slug == IF occurrences = 0 THEN slugBase
                         ELSE slugBase \o "-" \o ToString(occurrences + 1)
             IN [slugs |-> Append(F[i - 1].slugs, slug),
                 slugUsage |-> (slugBase :> (occurrences + 1)) @@ usage]
  IN F[Len(colls)].slugs

\* The characters of paths in the order of localeCompare.
CollationOrder == "-./0123456789abcdefghijklmnopqrstuvwxyz"

\* a.localeCompare(b) < 0
localeCompare_before(a, b) == stringBefore(a, b, CollationOrder)

\* documents.map(...).sort(...): the {path, hash} pairs by path, pairs of
\* equal paths in the order of the documents.
pathSortedPairs(documents) ==
  LET F[i \in 0..Len(documents)] ==
        IF i = 0 THEN <<>>
        ELSE LET pair == [path |-> documents[i].relativePath,
                          hash |-> documents[i].contentHash]
                 k == Cardinality({j \in 1..Len(F[i - 1]) :
                                     ~localeCompare_before(pair.path, F[i - 1][j].path)})
             IN SubSeq(F[i - 1], 1, k) \o <<pair>> \o SubSeq(F[i - 1], k + 1, Len(F[i - 1]))
  IN F[Len(documents)]

\* The document entry of the bundle: the data with its place in the
\* repository.
exportDocument(data, fileNameOfDocument) ==
  [relativePath |-> buildRepoPath(exportOptions.folder, fileNameOfDocument),
   fileName |-> fileNameOfDocument, data |-> data, contentHash |-> data.contentHash]

\* buildFigmaNativeExport after resolveRemoteVariableNames: one document of
\* all collections, or one document per collection, and the summary.
buildFigmaNativeExport_documents(b) ==
  LET slugs == collectionSlugs(b.collections)
      documents ==
        IF b.exportType = "singleFile"
        THEN <<exportDocument(
                 buildDocumentData(b.collections, b.allVars, b.exportedAt, "singleFile", "",
                                   b.allVars, b.remoteVariableNames),
                 exportOptions.singleFileName)>>
        ELSE [i \in 1..Len(b.collections) |->
                exportDocument(
                  buildDocumentData(<<b.collections[i]>>,
                                    variablesOf(b.allVars, b.collections[i].id), b.exportedAt,
                                    "perCollection", b.collections[i].id, b.allVars,
                                    b.remoteVariableNames),
                  slugs[i] \o ".json")]
  IN [b EXCEPT
        !.pc = "returned",
        !.documents = documents,
        !.summary = [documentsCount |-> Len(documents),
                     contentHash |-> sha256(stableStringify_value(pathSortedPairs(documents)))]]

\* buildExportBundle for the native format, up to the first
\* getVariableByIdAsync of resolveRemoteVariableNames: getLocalVariablesAsync
\* rejects with the error `api`, which nothing catches, or the remote ids are
\* collected.
buildFigmaNativeExport(api, colls, allVars, now, exportType) ==
  /\ build.pc = "off"
  /\ LET variablesById == {allVars[i].id : i \in 1..Len(allVars)}
         started == [build EXCEPT !.pc = "fetch", !.builder = "figma-native",
                                  !.exportType = exportType, !.allVars = allVars,
                                  !.collections = colls, !.exportedAt = now,
                                  !.remoteVariableIds = remoteIdsOf(allVars, variablesById)]
     IN build' = IF api # "ok"
                 THEN [build EXCEPT !.pc = "threw", !.builder = "figma-native",
                                    !.cause = api, !.error = api]
                 ELSE IF started.remoteVariableIds = <<>>
                 THEN buildFigmaNativeExport_documents(started) ELSE started
  /\ pluginFrame
  /\ UNCHANGED <<retry, util>>

\* await getVariableByIdAsync(id) settles in resolveRemoteVariableNames: the
\* name of the variable is kept, null and failures are ignored.
resolveRemoteVariableNames(answer) ==
  /\ build.pc = "fetch"
  /\ build.builder = "figma-native"
  /\ LET id == build.remoteVariableIds[Len(build.getVariableByIdAsync) + 1]
         fetched == [build EXCEPT
                       !.getVariableByIdAsync =
                         Append(@, [id |-> id, answer |-> answer.kind]),
                       !.remoteVariableNames =
                         IF answer.kind = "variable" THEN (id :> answer.name) @@ @ ELSE @]
     IN build' = IF Len(fetched.getVariableByIdAsync) = Len(fetched.remoteVariableIds)
                 THEN buildFigmaNativeExport_documents(fetched) ELSE fetched
  /\ pluginFrame
  /\ UNCHANGED <<retry, util>>

\* What getLocalVariablesAsync does: it resolves, or it rejects with an error.
ApiAnswers == {"ok", "API error"}

\* The names a collection may have.
CollectionNames == {"a", "A", "a-2", "!"}

\* The lists of up to MaxCollections collections with these names, each with
\* one mode.
CollectionLists ==
  UNION {[1..n -> CollectionNames] : n \in 1..MaxCollections}

\* getLocalVariableCollectionsAsync() answering with collections of the
\* given names.
collectionsNamed(names) ==
  [i \in 1..Len(names) |->
     [id |-> "VariableCollectionId:" \o ToString(i) \o ":0", name |-> names[i],
      modes |-> <<[modeId |-> ToString(i) \o ":0", name |-> "Default"]>>]]

\* No plugin activity and no withRetry call: the builders alone.
InitBuild == InitRetry

NextBuild ==
  \/ build.pc = "off" /\
       \E api \in ApiAnswers, allVars \in LocalVariables, now \in ExportTimes :
         buildDtcgJson(api, allVars, now)
  \/ build.pc = "fetch" /\
       \E answer \in RemoteVariableAnswers, now \in ExportTimes :
         buildDtcgJson_remoteVar(answer, now)
  \/ build.pc = "off" /\
       \E api \in ApiAnswers, allVars \in LocalVariables, now \in ExportTimes,
          exportType \in {"singleFile", "perCollection"} :
         buildFigmaNativeExport(api, collections, allVars, now, exportType)
  \/ build.pc = "off" /\
       \E names \in CollectionLists, now \in ExportTimes :
         buildFigmaNativeExport("ok", collectionsNamed(names), <<>>, now, "perCollection")
  \/ build.pc = "fetch" /\
       \E answer \in RemoteVariableAnswers : resolveRemoteVariableNames(answer)

SpecBuild == InitBuild /\ [][NextBuild]_vars

\* ------------------------------------------------------------------------
\* stableStringify on its own
\* ------------------------------------------------------------------------

\* The keys of the objects and the primitives of the value trees.
Keys == {"b", "a"}
Primitives == {primitive("1"), primitive("\"x\"")}

\* The arrays of up to MaxEntries values of V.
arraysOver(V) == {array(values) : values \in UNION {[1..n -> V] : n \in 0..MaxEntries}}

\* The objects of up to MaxEntries entries with distinct keys and values of V,
\* in every insertion order.
objectsOver(V) ==
  {object(entries) :
     entries \in {e \in UNION {[1..n -> [key : Keys, value : V]] : n \in 0..MaxEntries} :
                    \A i \in 1..Len(e), j \in 1..Len(e) : i # j => e[i].key # e[j].key}}

\* The value trees: arrays and objects of primitives, arrays and objects.
InnerValues == Primitives \cup arraysOver(Primitives) \cup objectsOver(Primitives)
ValueTrees == arraysOver(InnerValues) \cup objectsOver(InnerValues)

\* A call stableStringify(obj) and what it returns.
stableStringify_call(obj) ==
  /\ util.pc = "off"
  /\ util' = [pc |-> "returned", obj |-> obj, result |-> stableStringify(obj)]
  /\ pluginFrame
  /\ UNCHANGED <<retry, build>>

InitStringify == InitBuild

NextStringify == \E obj \in ValueTrees : stableStringify_call(obj)

SpecStringify == InitStringify /\ [][NextStringify]_vars

\* One call of upsertFile, for every file a builder can produce.
InitUpsert ==
  /\ stored = defaultSettings
  /\ uiSettings = defaultSettings
  /\ token = "ghp_1"
  /\ pc = "ref"
  /\ caller = "upsertFile"
  /\ \E p \in Paths, h \in Hashes :
       \E c \in {dtcgData(h), nativeData(h), legacyData(h)} :
         files = <<[path |-> p, content |-> c, contentHash |-> h]>>
  /\ sent = Unwatched
  /\ InitRequest

SpecUpsert == InitUpsert /\ [][Client]_vars

\* ------------------------------------------------------------------------
\* Properties of upsertFile and ensureBranch (SpecUpsert)
\* ------------------------------------------------------------------------

\* The positions of the PUT requests and of the file reads in the log.
PutIndices == {i \in 1..Len(log) : log[i].op = "PUT contents"}
GetIndices == {i \in 1..Len(log) : log[i].op = "GET contents"}
FirstPut(i) == i \in PutIndices /\ \A k \in PutIndices : k >= i
SecondPut(i) == i \in PutIndices /\ \E k \in PutIndices : k < i

\* C1: one upsertFile call issues at most two PUT requests; a 409 answer to
\* the first PUT is followed by exactly one refetch and at most one further
\* PUT; a 409 or any other non-2xx answer to the second PUT ends the call
\* with an error, nothing is requested after it.
C1_AtMostTwoPuts ==
  /\ Cardinality(PutIndices) <= 2
  /\ \A i \in 1..Len(log) :
       FirstPut(i) /\ log[i].status = 409 =>
         /\ IF i = Len(log) THEN pc = "refetch" ELSE log[i + 1].op = "GET contents"
         /\ Cardinality({j \in GetIndices : j > i}) <= 1
         /\ Cardinality({j \in PutIndices : j > i}) <= 1
  /\ \A i \in 1..Len(log) :
       SecondPut(i) /\ ~IsOk(log[i].status) => i = Len(log) /\ pc = "threw"

\* Both PUT requests of a call were answered with 409 and the call failed.
C1_Witness ==
  /\ pc = "threw"
  /\ Cardinality(PutIndices) = 2
  /\ \A i \in PutIndices : log[i].status = 409

\* The hash a document carries where its builder put it: the DTCG builder at
\* $extensions."com.figma".contentHash, buildVariablesJson at meta.contentHash.
documentHash(content) ==
  IF content.layout \in {"ext", "meta"} THEN content.hash ELSE NoHash

\* C5: whenever a copy of the file fetched from the branch embeds a content
\* hash equal to the caller's currentHash, upsertFile writes nothing and
\* returns skipped:true with the URL of that copy.
C5_SkipsOnEmbeddedHash ==
  \A i \in GetIndices :
    log[i].status = 200 /\ documentHash(log[i].got.content) = options.contentHash =>
      /\ i = Len(log)
      /\ pc = "returned"
      /\ results = <<[updated |-> FALSE, skipped |-> TRUE, url |-> log[i].got.html_url]>>

\* C6: the PUT after a 409 carries the SHA the refetch obtained, and no sha
\* when the refetch found the file gone.
C6_RetryCarriesRefetchedSha ==
  \A j \in 2..Len(log) :
    SecondPut(j) =>
      /\ log[j - 1].op = "GET contents"
      /\ log[j - 1].status = 404 => log[j].sha = NoSha
      /\ log[j - 1].status = 200 => log[j].sha = log[j - 1].got.sha

\* C10: ensureBranch.  After a 200 for the target ref the next request is
\* upsertFile's file read; after a 404 come the repository metadata, the
\* default branch's ref and the creation of the target ref at that ref's
\* commit SHA, in this order; after anything else the call has failed and
\* nothing more was requested.  A ref is created at the fourth request only.
C10_EnsureBranch ==
  Len(log) >= 1 =>
    /\ log[1].op = "GET ref"
    /\ \A i \in 1..Len(log) : log[i].op = "GET ref" => i = 1
    /\ \A i \in 1..Len(log) : log[i].op = "POST refs" => i = 4
    /\ log[1].status = 200 =>
         /\ \A i \in 1..Len(log) :
              log[i].op \notin {"GET repo", "GET defaultRef", "POST refs"}
         /\ IF Len(log) = 1 THEN pc = "get" ELSE log[2].op = "GET contents"
    /\ log[1].status = 404 =>
         /\ IF Len(log) = 1 THEN pc = "repo" ELSE log[2].op = "GET repo"
         /\ Len(log) >= 2 /\ IsOk(log[2].status) =>
              IF Len(log) = 2 THEN pc = "baseRef" ELSE log[3].op = "GET defaultRef"
         /\ Len(log) >= 3 /\ IsOk(log[3].status) =>
              IF Len(log) = 3 THEN pc = "create"
              ELSE log[4].op = "POST refs" /\ log[4].sha = log[3].got.sha
         /\ Len(log) >= 4 /\ IsOk(log[4].status) =>
              IF Len(log) = 4 THEN pc = "get" ELSE log[5].op = "GET contents"
    /\ log[1].status \notin {200, 404} => Len(log) = 1 /\ pc = "threw"

\* The target ref was missing and was created at the default branch's commit.
C10_Witness ==
  /\ Len(log) >= 5
  /\ log[1].status = 404
  /\ log[3].got.sha = "c2"
  /\ log[4].op = "POST refs" /\ log[4].sha = "c2" /\ log[4].status = 201

\* ------------------------------------------------------------------------
\* Properties of handleCommitRequest (Spec)
\* ------------------------------------------------------------------------

\* The places where the GitHub client is suspended.
ClientPcs == {"ref", "repo", "baseRef", "create", "get", "put", "refetch"}

\* The documents of the request being handled, and its COMMIT_RESULT.
documents == msg.exportBundle.documents
posted == result[Len(result)]

\* The documents with no stored hash, or a stored hash that is not theirs.
changedDocs(storedHashes, docs) ==
  {i \in 1..Len(docs) :
     \/ storedHashes[docs[i].relativePath] = NoHash
     \/ storedHashes[docs[i].relativePath] # docs[i].contentHash}

C3_SkippedCommitKeepsHashes ==
  pc = "posted" /\ network /\ posted.ok /\ posted.skipped /\ ~interfered =>
    /\ stored.lastHashes = before.stored.lastHashes
    /\ stored.lastHash = before.stored.lastHash

\* C4: the files handed to the commit are exactly the documents whose stored
\* hash is absent or different, in the bundle's order; when there is none the
\* answer is skipped:true and no request was made.
C4_OnlyChangedDocuments ==
  LET changed == changedDocs(getLastHashMap(settings), documents) IN
  /\ pc \in ClientPcs =>
       /\ changed # {}
       /\ Len(files) = Cardinality(changed)
       /\ \A i \in changed : \E j \in 1..Len(files) :
            files[j] = [path |-> documents[i].relativePath, content |-> documents[i].data,
                        contentHash |-> documents[i].contentHash]
       /\ \A j \in 1..Len(files) : \E i \in changed :
            files[j].path = documents[i].relativePath
  /\ pc = "posted" /\ validateAllSettings(settings) /\ Len(documents) > 0 /\ changed = {} =>
       result = <<CommitOk(TRUE, NoUrl)>> /\ ~network

\* One of two documents is handed to the commit, the other is up to date.
C4_Witness ==
  /\ pc \in ClientPcs
  /\ Len(documents) = 2
  /\ Len(files) = 1
  /\ Cardinality(changedDocs(getLastHashMap(settings), documents)) = 1

\* A step in which commitFiles returns and the handler answers ok:true.
SuccessfulCommit == pc \in ClientPcs /\ pc' = "posted" /\ result'[Len(result')].ok

\* After the step, every document's contentHash is stored under its path.
AllHashesStored ==
  \A i \in 1..Len(documents) :
    stored'.lastHashes[documents[i].relativePath] = documents[i].contentHash

C8_FailureKeepsSettings ==
  pc = "posted" =>
    /\ Len(result) = 1
    /\ Len(documents) = 0 => ~posted.ok
    /\ ~posted.ok => posted.type = "COMMIT_RESULT" /\ posted.error # ""
    /\ ~posted.ok /\ ~interfered => stored = before.stored

\* The commit threw at the second file, after the first had been written.
C8_Witness ==
  /\ pc = "posted" /\ ~posted.ok /\ ~interfered
  /\ Len(results) = 1 /\ results[1].updated
  /\ stored = before.stored

\* C9: a dry-run request with at least one document is answered ok:true,
\* skipped:true; no request was sent to GitHub and - no SAVE_SETTINGS having
\* been handled meanwhile - the stored hashes are those of before.
C9_DryRun ==
  pc = "posted" /\ msg.dryRun /\ Len(documents) >= 1 =>
    /\ ~network
    /\ result = <<[type |-> "COMMIT_RESULT", ok |-> TRUE, skipped |-> TRUE,
                   url |-> NoUrl, error |-> ""]>>
    /\ ~interfered => /\ stored.lastHashes = before.stored.lastHashes
                      /\ stored.lastHash = before.stored.lastHash

\* A dry run of a bundle with changed documents was answered.
C9_Witness ==
  /\ pc = "posted" /\ msg.dryRun /\ posted.ok /\ posted.skipped
  /\ Len(documents) = 2
  /\ changedDocs(getLastHashMap(stored), documents) # {}


\* ---------------------------------------------------------------------------
\* The messages posted to the UI

\* The text of a message or of a settings record holds no stored token.
NoToken(m) == \A t \in Tokens : ~Contains(ToString(m), t)

\* C11: no message posted to the UI holds the stored token: of the token the UI
\* receives the boolean tokenPresent only, and the persisted settings hold no
\* token either.
C11_TokenNeverPosted ==
  /\ \A i \in 1..Len(sent) :
       /\ NoToken(sent[i])
       /\ sent[i].type = "SETTINGS_RESPONSE"
            => ToString(sent[i].payload.tokenPresent) \in {"TRUE", "FALSE"}
  /\ NoToken(result)
  /\ NoToken(stored)
  /\ "token" \notin DOMAIN stored

\* A token is stored and the settings were posted with tokenPresent true.
C11_Witness ==
  /\ token \in Tokens
  /\ \E i \in 1..Len(sent) :
       sent[i].type = "SETTINGS_RESPONSE" /\ ToString(sent[i].payload.tokenPresent) = "TRUE"


\* ---------------------------------------------------------------------------
\* withRetry

\* The last call of fn made so far.
lastCall == retry.fn[Len(retry.fn)]

\* C12: withRetry calls fn at most maxAttempts times, stops at the first call
\* that resolves and returns its value, and when it rejects it rejects with
\* the error of the last attempt.
C12_AtMostMaxAttempts ==
  /\ Len(retry.fn) <= retry.options.maxAttempts
  /\ \A i \in 1..(Len(retry.fn) - 1) : ~retry.fn[i].ok
  /\ (Len(retry.fn) > 0 /\ lastCall.ok)
       => retry.pc = "returned" /\ retry.value = lastCall.value
  /\ retry.pc = "returned" => lastCall.ok
  /\ (retry.pc = "threw" /\ Len(retry.fn) > 0)
       => ~lastCall.ok /\ retry.error = lastCall.error

\* All three attempts rejected, the last with another error than the first.
C12_Witness ==
  /\ retry.pc = "threw"
  /\ Len(retry.fn) = 3
  /\ retry.options.maxAttempts = 3
  /\ retry.fn[1].error # retry.fn[3].error

RECURSIVE Pow(_, _)
Pow(b, e) == IF e = 0 THEN 1 ELSE b * Pow(b, e - 1)

\* C13: the k-th awaited delay is min(initialDelay * backoffMultiplier^(k-1),
\* maxDelay), none exceeds maxDelay, and onRetry is told the delay awaited.
C13_DelaysCapped ==
  \A k \in 1..Len(retry.delay) :
    /\ retry.delay[k] = Min(retry.options.initialDelay
                              * Pow(retry.options.backoffMultiplier, k - 1),
                            retry.options.maxDelay)
    /\ retry.delay[k] <= retry.options.maxDelay
    /\ retry.options.onRetry => retry.onRetry[k].delay = retry.delay[k]

\* C14: shouldRetry is called with the error and the 1-based number of the
\* attempt that failed; when it returns false the error is rethrown with no
\* onRetry call, no delay and no further call of fn.
C14_NoRetryWhenRefused ==
  LET n == Len(retry.shouldRetry)
  IN /\ \A i \in 1..n :
          /\ retry.shouldRetry[i].attempt = i
          /\ retry.shouldRetry[i].error = retry.fn[i].error
     /\ (n > 0 /\ ~retry.shouldRetry[n].returned)
          => /\ retry.pc = "threw"
             /\ retry.error = retry.shouldRetry[n].error
             /\ Len(retry.fn) = n
             /\ Len(retry.delay) = n - 1
             /\ Len(retry.onRetry) <= n - 1

\* The second attempt failed and shouldRetry refused it, with an onRetry passed.
C14_Witness ==
  /\ Len(retry.shouldRetry) = 2
  /\ ~retry.shouldRetry[2].returned
  /\ retry.options.onRetry
  /\ retry.pc = "threw"

\* The message mentions a status or a text of a client error.
mentionsClientError(m) ==
  \E kw \in {"401", "403", "404", "422", "unauthorized", "forbidden", "not found"} :
    Contains(m, kw)

\* C16: with the default predicate, an error whose message mentions 401, 403,
\* 404, 422, unauthorized, forbidden or not found is never retried: fn is
\* not called again after it and the error is rethrown.
C16_ClientErrorsNeverRetried ==
  \A i \in 1..Len(retry.fn) :
    (/\ retry.options.shouldRetry = "default"
     /\ ~retry.fn[i].ok
     /\ mentionsClientError(retry.fn[i].error))
      => /\ i = Len(retry.fn)
         /\ retry.pc = "threw"
         /\ retry.error = retry.fn[i].error


\* ---------------------------------------------------------------------------
\* ghFetch

\* C15: a GitHub call that fails transiently, by a network error or by an
\* answer with status 5xx or 429, has been issued maxAttempts times before its
\* failure reaches the caller of upsertFile.
C15_TransientFailureRetried ==
  \A i \in 1..Len(log) : transientFailure(log[i].status) => log[i].calls = maxAttempts


\* ---------------------------------------------------------------------------
\* The export builders

\* The build that returned, made again at the export time t with the same
\* variables and the same answers of getVariableByIdAsync.
rebuiltAt(t) ==
  IF build.builder = "dtcg" THEN buildDtcgBundle(buildDtcgJson_tokens(build, t))
  ELSE buildFigmaNativeExport_documents([build EXCEPT !.exportedAt = t])

\* C17: two builds that differ only in the export time give documents with
\* equal content hashes, for the DTCG builder and for the native builder in
\* both export types.
C17_HashIgnoresExportTime ==
  build.pc = "returned" =>
    \A t \in ExportTimes :
      /\ Len(rebuiltAt(t).documents) = Len(build.documents)
      /\ \A i \in 1..Len(build.documents) :
           rebuiltAt(t).documents[i].contentHash = build.documents[i].contentHash

\* A per-collection build returned, and the same build at another time gives
\* other documents.
C17_Witness ==
  /\ build.pc = "returned"
  /\ build.exportType = "perCollection"
  /\ Len(build.documents) = 2
  /\ \E t \in ExportTimes : rebuiltAt(t).documents[1] # build.documents[1]

\* The variables Phase 2 makes a token of: those whose first mode has a
\* truthy value.
exported(allVars) ==
  LET F[i \in 0..Len(allVars)] ==
        IF i = 0 THEN <<>>
        ELSE LET modes == collections[findCollection(allVars[i].variableCollectionId)].modes
             IN IF falsy(valueOfMode(allVars[i].valuesByMode, modes[1].modeId))
                THEN F[i - 1] ELSE Append(F[i - 1], allVars[i])
  IN F[Len(allVars)]

\* C18: an alias converts to "{" + path + "}" when its target id has an entry
\* in the path map; otherwise the conversion throws an error naming the id and
\* the DTCG build rejects with it instead of returning a token.
C18_UnresolvedAliasThrows ==
  LET map == build.variablePathMap
      targets == aliasTargets(exported(build.allVars))
      unresolved == {i \in 1..Len(targets) : targets[i] \notin DOMAIN map}
  IN (build.builder = "dtcg" /\ build.pc \in {"returned", "threw"}) =>
       /\ \A i \in 1..Len(targets) :
            IF i \in unresolved
            THEN /\ convertAliasToDtcg(targets[i], map).threw
                 /\ Contains(convertAliasToDtcg(targets[i], map).value, targets[i])
            ELSE convertAliasToDtcg(targets[i], map)
                   = [threw |-> FALSE, value |-> "{" \o map[targets[i]] \o "}"]
       /\ unresolved # {}
            => /\ build.pc = "threw"
               /\ build.documents = <<>>
               /\ \E i \in unresolved : Contains(build.error, targets[i])
       /\ (unresolved = {} /\ build.cause \notin ApiAnswers) => build.pc = "returned"

\* A DTCG build rejected: an alias target has no entry in the path map.
C18_Witness ==
  /\ build.builder = "dtcg"
  /\ build.pc = "threw"
  /\ \E i \in 1..Len(aliasTargets(exported(build.allVars))) :
       aliasTargets(exported(build.allVars))[i] \notin DOMAIN build.variablePathMap

\* The fallback path of an external id.
fallbackPath(id) == "external.unknown-" \o SubSeq(id, 1, Min(8, Len(id)))

\* C19: when getVariableByIdAsync fails for an external alias target, by
\* rejecting or by resolving with null, the path map holds the fallback path
\* of the id, and the DTCG build does not reject.
C19_FetchFailureFallsBack ==
  build.builder = "dtcg" =>
    /\ \A k \in 1..Len(build.getVariableByIdAsync) :
         LET call == build.getVariableByIdAsync[k]
         IN call.answer \in {"null", "rejected"}
              => /\ call.id \in DOMAIN build.variablePathMap
                 /\ build.variablePathMap[call.id] = fallbackPath(call.id)
    /\ build.pc # "threw"

\* The ids of the local variables of the build.
localIds == {build.allVars[i].id : i \in 1..Len(build.allVars)}

\* The number of getVariableByIdAsync calls made for an id.
fetchCount(id) ==
  Cardinality({k \in 1..Len(build.getVariableByIdAsync) :
                 build.getVariableByIdAsync[k].id = id})

\* C20: in one build getVariableByIdAsync is called once for each distinct
\* alias target that is not a local variable, however many values refer to
\* it, and never for the id of a local variable.
C20_OneFetchPerRemoteId ==
  LET targets == aliasTargets(build.allVars)
      remote == {targets[i] : i \in 1..Len(targets)} \ localIds
  IN /\ \A id \in localIds : fetchCount(id) = 0
     /\ \A k \in 1..Len(build.getVariableByIdAsync) :
          build.getVariableByIdAsync[k].id \in remote
     /\ \A id \in remote : fetchCount(id) <= 1
     /\ build.pc \in {"returned", "threw"} => \A id \in remote : fetchCount(id) = 1

\* A build ended in which three values are aliases of the same remote id.
C20_Witness ==
  /\ build.pc \in {"returned", "threw"}
  /\ Len(aliasTargets(build.allVars)) = 3
  /\ \A i \in 1..3 : aliasTargets(build.allVars)[i] = "VariableID:9:1"
  /\ Len(build.getVariableByIdAsync) = 1

\* C21: in a DTCG document the variables that are exported sit at distinct
\* token paths, none below another's, and the tree holds at the path of each
\* of them the token of that variable.
C21_PathAddressesOneVariable ==
  (build.builder = "dtcg" /\ build.pc = "returned") =>
    LET vs == exported(build.allVars)
        map == build.variablePathMap
        tokens == build.documents[1].tokens
    IN /\ \A i \in 1..Len(vs) :
            /\ map[vs[i].id] \in DOMAIN tokens
            /\ tokens[map[vs[i].id]] = dtcgToken(vs[i], map[vs[i].id], map)
       /\ \A i \in 1..Len(vs), j \in 1..Len(vs) :
            i # j => /\ map[vs[i].id] # map[vs[j].id]
                     /\ ~below(map[vs[i].id], map[vs[j].id])

\* A DTCG build returned for the FLOAT variable "base" of the collection
\* "Spacing" with the value 8 in the first mode.
C25_Witness ==
  /\ build.builder = "dtcg"
  /\ build.pc = "returned"
  /\ \E i \in 1..Len(build.allVars) :
       /\ build.allVars[i].name = "base"
       /\ build.allVars[i].resolvedType = "FLOAT"
       /\ collections[findCollection(build.allVars[i].variableCollectionId)].name = "Spacing"
       /\ build.allVars[i].valuesByMode[1].raw = [type |-> "FLOAT", id |-> "", value |-> 8]

\* C25 as stated: the FLOAT variable "base" with value 8 in the collection
\* "Spacing" gets the token path "spacing.base", the type "number" and the
\* bare value 8.
C25_SpacingBaseIsNumber ==
  C25_Witness =>
    /\ "spacing.base" \in DOMAIN build.documents[1].tokens
    /\ build.documents[1].tokens["spacing.base"].type = "number"
    /\ build.documents[1].tokens["spacing.base"].value = "8"

\* C25, amended: the FLOAT variable "base" with value 8 in the collection
\* "Spacing" gets the token path "spacing.base", and, the heuristic being
\* applied to the token path, which holds the keyword "spacing", the type
\* "dimension" and the value {value: 8, unit: "px"}; the FLOAT variable
\* "bg/base" with value 8 in "Colors", whose path "colors.bgbase" holds no
\* keyword, gets the type "number" and the bare value 8.
C25_SpacingBaseIsDimension ==
  C25_Witness =>
    LET tokens == build.documents[1].tokens
    IN /\ build.variablePathMap["VariableID:2:1"] = "spacing.base"
       /\ "spacing.base" \in DOMAIN tokens
       /\ tokens["spacing.base"].type = "dimension"
       /\ tokens["spacing.base"].value = "{\"value\":8,\"unit\":\"px\"}"
       /\ build.allVars[2].name = "bg/accent"
            => /\ tokens["colors.bgbase"].type = "number"
               /\ tokens["colors.bgbase"].value = "8"

\* The names of the modes a token carries.
modeNames(tok) == {tok.modes[k].name : k \in 1..Len(tok.modes)}

\* C28: in a DTCG document whose variables have paths of their own, every
\* variable with a value defined for the first mode of its collection has a
\* token whose value is the conversion of that value, the value 0 included,
\* and every mode of the collection with a defined value is in the modes of
\* the token.
C28_FirstModeValueYieldsToken ==
  (build.builder = "dtcg" /\ build.pc = "returned" /\ build.allVars[2].name = "bg/accent") =>
    \A i \in 1..Len(build.allVars) :
      LET variable == build.allVars[i]
          modes == collections[findCollection(variable.variableCollectionId)].modes
          map == build.variablePathMap
          tokens == build.documents[1].tokens
          primary == valueOfMode(variable.valuesByMode, modes[1].modeId)
      IN primary.type # "undefined" =>
           /\ map[variable.id] \in DOMAIN tokens
           /\ tokens[map[variable.id]].value
                = convertValue(normalizeModeValue(primary), variable.resolvedType,
                               map[variable.id], map).value
           /\ \A m \in 1..Len(modes) :
                valueOfMode(variable.valuesByMode, modes[m].modeId).type # "undefined"
                  => modes[m].name \in modeNames(tokens[map[variable.id]])

\* C22: in a per-collection native export the documents have pairwise
\* distinct relative paths, whatever the names of the collections are.
C22_FileNamesDistinct ==
  (build.pc = "returned" /\ build.exportType = "perCollection") =>
    \A i \in 1..Len(build.documents), j \in 1..Len(build.documents) :
      i # j => build.documents[i].relativePath # build.documents[j].relativePath

\* C23: the summary of a returned bundle has the hash of the path-sorted
\* list of the {path, hash} pairs of its documents and the number of its
\* documents, and a DTCG bundle has exactly one single-file document.
C23_SummaryOfDocuments ==
  build.pc = "returned" =>
    /\ build.summary.contentHash
         = sha256(stableStringify_value(pathSortedPairs(build.documents)))
    /\ build.summary.documentsCount = Len(build.documents)
    /\ build.builder = "dtcg"
         => Len(build.documents) = 1 /\ build.documents[1].exportType = "singleFile"

\* The error wraps the cause: a text that begins with "Failed to build", then
\* the message of the cause.
wraps(error, cause) ==
  /\ Len(error) > Len(cause)
  /\ SubSeq(error, Len(error) - Len(cause) + 1, Len(error)) = cause
  /\ SubSeq(error, 1, 15) = "Failed to build"

\* C24: a build that fails, under either builder, gives the caller of
\* buildExportBundle an error that wraps the message of the exception that
\* was raised.
C24_OneWrappedError ==
  build.pc = "threw" => build.cause # "" /\ wraps(build.error, build.cause)

\* The orders in which the entries of an object can have been inserted.
insertionOrders(entries) ==
  {[i \in 1..Len(entries) |-> entries[p[i]]] : p \in Permutations(1..Len(entries))}

RECURSIVE permuteKeys(_)
\* The copies of a value tree whose objects, at every level, have their keys
\* inserted in another order; arrays keep the order of their elements.
permuteKeys(val) ==
  IF val.kind = "primitive" THEN {val}
  ELSE LET copies == {items \in [1..Len(val.items) ->
                                   [key : {val.items[i].key : i \in 1..Len(val.items)},
                                    value : UNION {permuteKeys(val.items[i].value) :
                                                     i \in 1..Len(val.items)}]] :
                        \A i \in 1..Len(val.items) :
                          /\ items[i].key = val.items[i].key
                          /\ items[i].value \in permuteKeys(val.items[i].value)}
       IN IF val.kind = "array" THEN {[val EXCEPT !.items = items] : items \in copies}
          ELSE {[val EXCEPT !.items = entries] :
                  entries \in UNION {insertionOrders(items) : items \in copies}}

\* The array with its elements in reverse order.
reversed(val) ==
  [val EXCEPT !.items = [i \in 1..Len(val.items) |-> val.items[Len(val.items) + 1 - i]]]

ensureBranchDone ==
  IF Len(log) >= 1 /\ log[1].op = "GET ref" /\ log[1].status = 200 THEN 1
  ELSE IF /\ Len(log) >= 4
          /\ log[1].op = "GET ref" /\ log[1].status = 404
          /\ log[2].op = "GET repo" /\ IsOk(log[2].status)
          /\ log[3].op = "GET defaultRef" /\ IsOk(log[3].status)
          /\ log[4].op = "POST refs" /\ IsOk(log[4].status)
  THEN 4 ELSE 0

\* The request at position k of the log is one of ensureBranch or the read of
\* the existing file, and its answer is neither a success nor, for the reads
\* of the ref and of the file, a 404.
setupFailed(k) ==
  \/ log[k].op = "GET ref" /\ log[k].status \notin {200, 404}
  \/ log[k].op \in {"GET repo", "GET defaultRef", "POST refs"} /\ ~IsOk(log[k].status)
  \/ /\ log[k].op = "GET contents"
     /\ \A j \in 1..(k - 1) : log[j].op # "GET contents"
     /\ log[k].status \notin {200, 404}

\* C27: a PUT is in the log of an upsertFile call only after ensureBranch
\* ended normally and the read of the existing file that follows it was
\* answered with the file or with 404; when a request of ensureBranch or
\* that read is answered otherwise, the call throws there, with no PUT made.
C27_PutOnlyAfterSetup ==
  /\ \A k \in PutIndices :
       /\ ensureBranchDone > 0
       /\ ensureBranchDone + 1 < k
       /\ log[ensureBranchDone + 1].op = "GET contents"
       /\ log[ensureBranchDone + 1].status \in {200, 404}
  /\ \A k \in 1..Len(log) :
       setupFailed(k) => k = Len(log) /\ pc = "threw" /\ PutIndices = {}

\* A PUT was made in a call that had to create the branch.
C27_Witness ==
  /\ PutIndices # {}
  /\ ensureBranchDone = 4
  /\ log[5].status = 404

\* C29: when a SAVE_SETTINGS was handled while a COMMIT_REQUEST was suspended
\* and both handlers have ended, the stored owner, folder and filename are
\* those of the SAVE_SETTINGS payload, which the UI holds as its settings.
C29_SaveSettingsNotLost ==
  (pc = "posted" /\ interfered) =>
    /\ stored.owner = uiSettings.owner
    /\ stored.folder = uiSettings.folder
    /\ stored.filename = uiSettings.filename

====
